---- MODULE Spec2Model ----
(***************************************************************************)
(* Model of the resumable GitHub repository harvester of dataset_test:     *)
(* test2.py (two-tier filtering, parallel page fetching, stop signals) and *)
(* its predecessor test.py (sequential search, no stop signal).            *)
(*                                                                         *)
(* Spec       : main() of either file, run again and again: start, quota   *)
(*              check, collection tasks in plan order, checkpoint writes,  *)
(*              phase flip, enrichment call, exits, crashes and restarts.  *)
(*              A call of search_repos is one step there; its result is    *)
(*              any value the function can return.                         *)
(* SpecSearch : the body of search_repos, page by page and batch by batch. *)
(* SpecCalls  : calls of the methods of one component of the fetcher in    *)
(*              any order: the ingestion loops of the fetch_* tasks, the   *)
(*              task registry, the quota gate, or the threads of one page  *)
(*              pool, each storing the header count of its response.       *)
(* SpecEnrich : phase 2 of main(), run again and again: enrich_all_repos   *)
(*              with its pool of entity workers, the three sub-requests of *)
(*              an entity, the enriched output file and the state file.    *)
(* SpecFetch  : a call of search_repos or the runs of enrich_all_repos.    *)
(* SpecPure   : calls of is_legitimate_project, or one call of             *)
(*              merge_repositories of test5.py.                            *)
(* SpecThreads: the threads of one batch of phase 2, their file writes     *)
(*              step by step, in test2.py and in test.py.                  *)
(*                                                                         *)
(* A file write that raises leaves the previous content (open() failed).   *)
(* A process killed while it rewrites a file leaves the file torn: it      *)
(* exists and json.load raises on it.                                      *)
(***************************************************************************)
EXTENDS Integers, Sequences, FiniteSets, TLC

VARIABLES
    impl,                   \* which program runs: "test2" or "test"
    first_match,            \* the remote repository matches the queries of the
                            \* tasks Plan[first_match], Plan[first_match + 1], ...
    pc,                     \* position of main(); "exited" when no process runs
    task,                   \* index in Plan of the task being executed
    query,                  \* index of the query of that task
    progress_state,         \* self.progress_state
    all_repos,              \* self.all_repos: full_name -> record
    rate_limit_remaining,   \* self.rate_limit_remaining
    state_file,             \* fetcher_state.json
    raw_file,               \* github_repos_raw.json
    exit_reason,            \* why the last process ended
    quota_gone,             \* the remote quota ran out during this run; it is
                            \* not replenished before the process ends
    runs,                   \* number of invocations of main() so far
    io_failures,            \* number of failed file writes so far
    \* history of the run, for the properties
    mark_returned,          \* tasks whose mark_task_complete call has returned
    searching,              \* task whose search request the last step issued
    quota_stopped,          \* a query of the current task was stopped by quota
    failed_write,           \* a file write failed during the current run
    \* one call of search_repos (SpecSearch)
    max_results,            \* the argument max_results
    remote,                 \* what the service holds for the query: the number
                            \* of items and the items the validator rejects
    remote_quota,           \* requests the service still grants
    s_pc,                   \* position of search_repos
    batch_start,            \* loop variable of test2.py
    page,                   \* loop variable of test.py
    in_flight,              \* pages submitted to the pool and not yet completed
    batch_results,          \* results of the batch in completion order
    repos,                  \* the local list repos
    total_filtered_out,     \* the local counter total_filtered_out
    ret,                    \* the value returned by search_repos
    requested,              \* page numbers requested so far, in request order
    responses,              \* page -> kind of the response it got
    env,                    \* how the service behaves during the call: the pages
                            \* that fail and how, and what the quota endpoint does
    filtered_count,         \* progress_state['filtered_count'] (0 when absent)
    \* calls of single methods (SpecCalls)
    unit,                   \* the component whose methods are called
    call,                   \* the last call: method, argument, what held before
                            \* it, what it returned, the requests it issued
    ingested,               \* the (task, repo) pairs ingested so far, in order
    merged,                 \* the last call of merge_repositories of test5.py:
                            \* the two inputs and the value returned
    validated,              \* the calls of is_legitimate_project so far, in
                            \* order: the item before and after, the result
    \* enrich_all_repos (SpecEnrich)
    e_pc,                   \* position of phase 2: "exited", "batch", "drain"
    e_runs,                 \* number of invocations of phase 2 so far
    renamed,                \* entities that the service knows under a new name
    run_quotas,             \* requests the service grants at the start of the
                            \* first, the second, ... run
    enriched_repos,         \* the local map enriched_repos: key -> record
    enriched_file,          \* github_repos_enriched.json
    enrich_progress,        \* progress_state['enrichment_progress'] and
                            \* progress_state['enriched_repos']
    enrich_saved,           \* the same two keys as fetcher_state.json holds them
    e_batch_start,          \* loop variable batch_start of enrich_all_repos
    started,                \* workers of the batch that have begun, a count
    running,                \* entities whose worker has passed the gate and
                            \* has not returned
    completed,              \* futures done and not yet yielded, oldest first
    yielded,                \* entities whose future as_completed has yielded
    sub_requests,           \* the sub-requests of this run: (entity, endpoint)
                            \* -> how the service answered each request for it
    writers,                \* pool threads that hold a response and have not yet
                            \* stored its header count: thread -> count
    prior_names,            \* full names in the output file when the run began
    repos_list,             \* the local list repos_list, keys only
    threads,                \* the threads of one batch of phase 2, the workers
                            \* first and the orchestrating thread last: where
                            \* each of them is in its code
    actor                   \* the thread that took the last step

searchVars == <<max_results, remote, remote_quota, s_pc, batch_start, page, in_flight,
                batch_results, repos, total_filtered_out, ret, requested, responses,
                env, filtered_count>>

mainVars == <<first_match, pc, task, query, all_repos, exit_reason, quota_gone, runs,
              mark_returned, searching, quota_stopped>>

vars == <<impl, first_match, pc, task, query, progress_state, all_repos, rate_limit_remaining,
          state_file, raw_file, exit_reason, quota_gone, runs, io_failures,
          mark_returned, searching, quota_stopped, failed_write, max_results, remote,
          remote_quota, s_pc, batch_start, page, in_flight, batch_results, repos,
          total_filtered_out, ret, requested, responses, env, filtered_count,
          unit, call, ingested, validated, merged, e_pc, e_runs, renamed, run_quotas, enriched_repos, enriched_file,
          enrich_progress, enrich_saved, e_batch_start, started, running, completed,
          yielded, sub_requests, prior_names, repos_list, actor, writers, threads>>

enrichVars == <<e_pc, e_runs, renamed, run_quotas, enriched_repos, enriched_file, enrich_progress,
                enrich_saved, e_batch_start, started, running, completed, yielded,
                sub_requests, prior_names, repos_list, actor>>

callVars == <<unit, call, ingested, validated, merged, enrichVars, writers, threads>>

(***************************************************************************)
(* Bounds                                                                  *)
(***************************************************************************)
NumTopics == 1          \* topics of the plan that are modelled (9 in main)
NumLanguages == 1       \* languages of the plan that are modelled (10 in main)
MaxRuns == 2            \* invocations of main() of test2.py
MaxRunsV1 == 1          \* invocations of main() of test.py
MaxIOFailures == 1      \* file writes that fail
MaxIngest == 3          \* repos ingested by the calls of the ingestion loops
MaxNames == 3           \* task names passed to the calls of mark_task_complete
NumEntities == 11       \* entities in the raw data file
MaxEnrichRuns == 2      \* invocations of phase 2
MaxValidated == 3        \* calls of is_legitimate_project in a row
MaxOverlap == 2         \* entity workers begun whose future is not yet yielded
PoolThreads == 2        \* worker threads of a batch of phase 2 followed step by step

Range(s) == {s[i] : i \in 1..Len(s)}

(***************************************************************************)
(* The plan of main()                                                      *)
(***************************************************************************)
Topics == <<"machine-learning", "web-development", "data-science",
            "artificial-intelligence", "blockchain", "cybersecurity",
            "mobile-development", "devops", "open-source">>

Languages == <<"Python", "JavaScript", "TypeScript", "Java", "Go",
               "Rust", "C++", "Ruby", "PHP", "Swift">>

TopicTask(t) == [name |-> "topic_" \o t, kind |-> "topic", tag |-> "topic_" \o t,
                 arg |-> t, nq |-> 1, nq_v1 |-> 1]

LanguageTask(l) == [name |-> "language_" \o l, kind |-> "language",
                    tag |-> "language_" \o l, arg |-> l, nq |-> 1, nq_v1 |-> 1]

\* nq: number of queries of the task in test2.py; nq_v1: in test.py
Plan ==
    <<[name |-> "top_repos", kind |-> "top", tag |-> "top_starred",
       arg |-> "", nq |-> 1, nq_v1 |-> 1],
      [name |-> "gsoc_repos", kind |-> "gsoc", tag |-> "gsoc",
       arg |-> "", nq |-> 4, nq_v1 |-> 4],
      [name |-> "hacktoberfest_repos", kind |-> "hacktoberfest", tag |-> "hacktoberfest",
       arg |-> "", nq |-> 2, nq_v1 |-> 3]>>
    \o [i \in 1..NumTopics |-> TopicTask(Topics[i])]
    \o [i \in 1..NumLanguages |-> LanguageTask(Languages[i])]
    \o <<[name |-> "good_first_issue", kind |-> "good_first_issue",
          tag |-> "good_first_issue", arg |-> "", nq |-> 2, nq_v1 |-> 3],
         [name |-> "underrated", kind |-> "underrated", tag |-> "underrated",
          arg |-> "", nq |-> 3, nq_v1 |-> 3]>>

TaskNames == {Plan[i].name : i \in 1..Len(Plan)}

NumQueries(i) == IF impl = "test2" THEN Plan[i].nq ELSE Plan[i].nq_v1

(***************************************************************************)
(* Items of the remote service and the results of a search                 *)
(***************************************************************************)
Item1 == [full_name |-> "octo/alpha", stargazers_count |-> 1500,
          forks_count |-> 30, watchers_count |-> 10]

\* the same repository as a later search reports it
Item1Later == [full_name |-> "octo/alpha", stargazers_count |-> 2000,
               forks_count |-> 30, watchers_count |-> 10]

Item2 == [full_name |-> "octo/beta", stargazers_count |-> 300,
          forks_count |-> 5, watchers_count |-> 10]

\* the repos the searches hand to the ingestion loops
Payloads == {Item1, Item1Later, Item2}

\* the complete result of a query of task i: the remote holds one repository
SearchList(i) == IF i >= first_match THEN <<Item1>> ELSE <<>>

Keys(list) == {list[i].full_name : i \in 1..Len(list)}

(***************************************************************************)
(* Task registry                                                           *)
(***************************************************************************)
DefaultState == [phase |-> "raw_data", completed_tasks |-> <<>>]

\* a registry that holds the phase only
json_dump_phase_only(ps) == <<"{", ps.phase, "[", "]", "}">>

\* json.dump of the registry: the text of the file as a list of tokens
json_dump(ps) == <<"{", ps.phase, "[">> \o ps.completed_tasks \o <<"]", "}">>

\* json.load of a text that json.dump wrote
json_load(text) ==
    [phase |-> text[2], completed_tasks |-> SubSeq(text, 4, Len(text) - 2)]

NoStateFile == [exists |-> FALSE, intact |-> TRUE, content |-> <<>>]

\* the file after a write that was cut short
TornStateFile == [exists |-> TRUE, intact |-> FALSE, content |-> <<>>]

\* load_state: the default state when the file is absent or json.load raises
load_state(f) == IF f.exists /\ f.intact THEN json_load(f.content) ELSE DefaultState

\* ok = FALSE: open raised; the exception is printed and swallowed
save_state(ps, f, ok) ==
    IF ok THEN [exists |-> TRUE, intact |-> TRUE, content |-> json_dump(ps)] ELSE f

is_task_complete(ps, name) == name \in Range(ps.completed_tasks)

\* a registry that appends every name it is given
AppendCompleted_always(ps, name) == [ps EXCEPT !.completed_tasks = Append(@, name)]

AppendCompleted(ps, name) ==
    IF name \in Range(ps.completed_tasks)
    THEN ps
    ELSE [ps EXCEPT !.completed_tasks = Append(@, name)]

(***************************************************************************)
(* Dedup aggregation: one record per full_name.  A key that a Python dict  *)
(* lacks reads as False / [] everywhere (.get), and is FALSE / <<>> here.  *)
(***************************************************************************)
NoRepos == [k \in {} |-> 0]

NewEntity(tag, repo) ==
    [source |-> <<tag>>, raw_data |-> repo, is_gsoc |-> FALSE,
     is_hacktoberfest |-> FALSE, has_good_first_issues |-> FALSE,
     is_underrated |-> FALSE, topics |-> <<>>, languages |-> <<>>]

\* a store that keeps no other key
Put_alone(all, k, v) == [x \in {k} |-> v]

Put(all, k, v) == [x \in (DOMAIN all) \cup {k} |-> IF x = k THEN v ELSE all[x]]

AppendIfAbsent(s, e) == IF e \in Range(s) THEN s ELSE Append(s, e)

is_underrated(repo) ==
    repo.stargazers_count < 2000
    /\ (repo.forks_count > 20 \/ repo.watchers_count > 50)

\* fetch_top_repos: the tag is appended without a membership test
ingest_top(all, t, repo) ==
    LET k == repo.full_name IN
    IF k \notin DOMAIN all
    THEN Put(all, k, NewEntity("top_starred", repo))
    ELSE Put(all, k, [all[k] EXCEPT !.source = Append(@, "top_starred")])

ingest_gsoc(all, t, repo) ==
    LET k == repo.full_name IN
    IF k \notin DOMAIN all
    THEN Put(all, k, [NewEntity("gsoc", repo) EXCEPT !.is_gsoc = TRUE])
    ELSE Put(all, k, [all[k] EXCEPT !.source = AppendIfAbsent(@, "gsoc"),
                                    !.is_gsoc = TRUE])

ingest_hacktoberfest(all, t, repo) ==
    LET k == repo.full_name IN
    IF k \notin DOMAIN all
    THEN Put(all, k, [NewEntity("hacktoberfest", repo) EXCEPT !.is_hacktoberfest = TRUE])
    ELSE Put(all, k, [all[k] EXCEPT !.source = AppendIfAbsent(@, "hacktoberfest"),
                                    !.is_hacktoberfest = TRUE])

\* fetch_repos_by_topics: the tag is appended without a membership test
ingest_topic(all, t, repo) ==
    LET k == repo.full_name IN
    IF k \notin DOMAIN all
    THEN Put(all, k, [NewEntity(t.tag, repo) EXCEPT !.topics = <<t.arg>>])
    ELSE Put(all, k, [all[k] EXCEPT !.source = Append(@, t.tag),
                                    !.topics = AppendIfAbsent(@, t.arg)])

\* fetch_repos_by_languages: the tag is appended without a membership test
ingest_language(all, t, repo) ==
    LET k == repo.full_name IN
    IF k \notin DOMAIN all
    THEN Put(all, k, [NewEntity(t.tag, repo) EXCEPT !.languages = <<t.arg>>])
    ELSE Put(all, k, [all[k] EXCEPT !.source = Append(@, t.tag),
                                    !.languages = AppendIfAbsent(@, t.arg)])

ingest_good_first_issue(all, t, repo) ==
    LET k == repo.full_name IN
    IF k \notin DOMAIN all
    THEN Put(all, k, [NewEntity("good_first_issue", repo)
                        EXCEPT !.has_good_first_issues = TRUE])
    ELSE Put(all, k, [all[k] EXCEPT !.source = AppendIfAbsent(@, "good_first_issue"),
                                    !.has_good_first_issues = TRUE])

\* an ingestion that replaces the payload of a record it finds
ingest_underrated_refresh(all, t, repo) ==
    LET k == repo.full_name IN
    IF k \notin DOMAIN all
    THEN Put(all, k, [NewEntity("underrated", repo)
                        EXCEPT !.is_underrated = is_underrated(repo)])
    ELSE Put(all, k, [all[k] EXCEPT !.source = AppendIfAbsent(@, "underrated"),
                                    !.is_underrated = is_underrated(repo),
                                    !.raw_data = repo])

\* fetch_underrated_repos: the flag is assigned, not OR-ed
ingest_underrated(all, t, repo) ==
    LET k == repo.full_name IN
    IF k \notin DOMAIN all
    THEN Put(all, k, [NewEntity("underrated", repo)
                        EXCEPT !.is_underrated = is_underrated(repo)])
    ELSE Put(all, k, [all[k] EXCEPT !.source = AppendIfAbsent(@, "underrated"),
                                    !.is_underrated = is_underrated(repo)])

ingest_repo(all, t, repo) ==
    CASE t.kind = "top" -> ingest_top(all, t, repo)
      [] t.kind = "gsoc" -> ingest_gsoc(all, t, repo)
      [] t.kind = "hacktoberfest" -> ingest_hacktoberfest(all, t, repo)
      [] t.kind = "topic" -> ingest_topic(all, t, repo)
      [] t.kind = "language" -> ingest_language(all, t, repo)
      [] t.kind = "good_first_issue" -> ingest_good_first_issue(all, t, repo)
      [] t.kind = "underrated" -> ingest_underrated(all, t, repo)

\* "for repo in repos": the list is ingested front to back
RECURSIVE IngestList(_, _, _)
IngestList(all, t, list) ==
    IF list = <<>> THEN all
    ELSE IngestList(ingest_repo(all, t, Head(list)), t, Tail(list))

(***************************************************************************)
(* Data file                                                               *)
(***************************************************************************)
NoRawFile == [exists |-> FALSE, intact |-> TRUE, repositories |-> NoRepos,
              completed_tasks |-> <<>>]

\* the file after a write that was cut short
TornRawFile == [exists |-> TRUE, intact |-> FALSE, repositories |-> NoRepos,
                completed_tasks |-> <<>>]

\* save_current_data / save_raw_data: what a successful write leaves on disk
RawContent(all, ps) ==
    [exists |-> TRUE, intact |-> TRUE, repositories |-> all,
     completed_tasks |-> ps.completed_tasks]

\* load_existing_repos: all_repos is left alone when the file is absent or
\* json.load raises
load_existing_repos(f, all) == IF f.exists /\ f.intact THEN f.repositories ELSE all

(***************************************************************************)
(* Quota gate                                                              *)
(***************************************************************************)
LowWater == 10
HardFloor == 5
InitialRemaining == 60

\* remaining counts the quota endpoint and the response headers report
QuotaVals == {HardFloor - 1, InitialRemaining}

\* answers of GET /rate_limit: 200 with a count, another status, an exception
QuotaResponses ==
    [kind : {"ok"}, remaining : QuotaVals]
    \cup {[kind |-> "http_error", remaining |-> 0], [kind |-> "exception", remaining |-> 0]}

\* check_rate_limit: the new cached count
CheckRemaining(resp, cached) == IF resp.kind = "ok" THEN resp.remaining ELSE cached

\* check_rate_limit returns False ("result is False" in the callers)
CheckStops(resp) == resp.kind = "ok" /\ resp.remaining < HardFloor

(***************************************************************************)
(* search_repos: pages, the remote service and the page worker             *)
(***************************************************************************)
per_page == 100
batch_size == 5
PageCap == 10

Min(a, b) == IF a < b THEN a ELSE b

Max(a, b) == IF a > b THEN a ELSE b

\* (max_results + per_page - 1) // per_page
PagesFor(n) == (n + per_page - 1) \div per_page

\* the page count without the cap
max_pages_uncapped(n) == PagesFor(n)

\* test2.py: max_pages = min(ceil, 10)
max_pages(n) == Min(PagesFor(n), PageCap)

\* test.py: the last page of range(1, min(max_pages + 1, 11))
last_page_v1(n) == Min(PagesFor(n) + 1, PageCap + 1) - 1

\* repos[:n]
Truncate(list, n) == SubSeq(list, 1, Min(n, Len(list)))

\* target counts of the calls that are modelled
Targets == {1, 150, 50000}

\* what the service holds for the query: items 1..total in rank order, the
\* items that the Tier 2 validator rejects, and the pages that the service
\* answers with an empty item list although it holds items for them
Remotes ==
    {[total |-> 0, rejected |-> {}, empty |-> {}],
     [total |-> 1, rejected |-> {1}, empty |-> {}],
     [total |-> 150, rejected |-> {2}, empty |-> {}],
     [total |-> 150, rejected |-> 1..100, empty |-> {}],
     [total |-> 1100, rejected |-> {}, empty |-> {}],
     [total |-> 1100, rejected |-> {}, empty |-> {2}]}

Env(c, q, pages, kind, gate) ==
    [cached |-> c, quota |-> q, pages |-> pages, kind |-> kind, gate |-> gate]

\* behaviours of the service during one call: the cached count of the fetcher
\* at the call, the requests the service still grants, the pages whose
\* request fails and how, and the answer of the quota endpoint
Envs ==
    {Env(60, 60, {}, "HTTP 500", "ok"),
     Env(60, 12, {}, "HTTP 500", "ok"),
     Env(60, 1, {}, "HTTP 500", "ok"),
     Env(7, 7, {}, "HTTP 500", "ok"),
     Env(3, 3, {}, "HTTP 500", "ok"),
     Env(3, 3, {}, "HTTP 500", "http_error"),
     Env(3, 3, {}, "HTTP 500", "exception"),
     Env(60, 60, {2}, "HTTP 500", "ok"),
     Env(60, 60, {1}, "exception", "ok"),
     Env(60, 12, {4}, "exception", "ok")}

NoEnv == Env(60, 60, {}, "HTTP 500", "ok")

\* the items the service returns for page p, per_page items to a page
PageItems(p) ==
    LET n == IF p \in remote.empty THEN 0
             ELSE Max(0, Min(per_page, remote.total - (p - 1) * per_page))
    IN  [i \in 1..n |-> (p - 1) * per_page + i]

\* verdict of is_legitimate_project on an item
Tier2Accepts(item) == item \notin remote.rejected

Tier2Rejects(item) == ~Tier2Accepts(item)

\* a page result that keeps every item of the page
PageSuccess_unfiltered(p) ==
    [success |-> TRUE, page |-> p,
     repos |-> PageItems(p),
     filtered_out |-> Len(SelectSeq(PageItems(p), Tier2Rejects)),
     total_items |-> Len(PageItems(p)), error |-> ""]

\* fetch_page, status 200: the items the validator accepts, in remote order
PageSuccess(p) ==
    [success |-> TRUE, page |-> p,
     repos |-> SelectSeq(PageItems(p), Tier2Accepts),
     filtered_out |-> Len(SelectSeq(PageItems(p), Tier2Rejects)),
     total_items |-> Len(PageItems(p)), error |-> ""]

\* fetch_page, any other outcome; absent keys read as their .get defaults
PageFailure(p, e) ==
    [success |-> FALSE, page |-> p, repos |-> <<>>, filtered_out |-> 0,
     total_items |-> 0, error |-> e]

\* how the service answers the request for page p now: the fault of the
\* page, else 200 while it grants requests and 403 when it grants none
Transport(p) ==
    IF p \in env.pages THEN env.kind
    ELSE IF remote_quota > 0 THEN "ok" ELSE "rate_limit"

\* X-RateLimit-Remaining as the request leaves it in self.rate_limit_remaining
HeaderAfter(kind, cached) ==
    CASE kind = "ok" -> remote_quota - 1
      [] kind = "rate_limit" -> 0
      [] kind = "HTTP 500" -> remote_quota
      [] kind = "exception" -> cached

\* answer of GET /rate_limit during a search
GateResponse ==
    IF env.gate = "ok"
    THEN [kind |-> "ok", remaining |-> remote_quota]
    ELSE [kind |-> env.gate, remaining |-> 0]

\* a gate that asks the quota endpoint at every call
wait_for_rate_limit_always(cached, resp) ==
    [go |-> ~CheckStops(resp), remaining |-> CheckRemaining(resp, cached),
     requests |-> 1]

\* wait_for_rate_limit when the quota endpoint would answer resp: the endpoint
\* is asked (check_rate_limit) only below the low water mark; go is the
\* returned value, requests the number of requests sent to the endpoint
wait_for_rate_limit_on(cached, resp) ==
    IF cached < LowWater
    THEN [go |-> ~CheckStops(resp), remaining |-> CheckRemaining(resp, cached),
          requests |-> 1]
    ELSE [go |-> TRUE, remaining |-> cached, requests |-> 0]

\* wait_for_rate_limit during a search
wait_for_rate_limit(cached) == wait_for_rate_limit_on(cached, GateResponse)

\* the results left in completion order
SortByPage_completion(results) == results

\* the results sorted by descending page
SortByPage_descending(results) ==
    LET n == Len(results)
        Before(k, j) == results[k].page > results[j].page
                        \/ (results[k].page = results[j].page /\ k < j)
        Position(j) == Cardinality({k \in 1..n : Before(k, j)}) + 1
    IN  [i \in 1..n |-> results[CHOOSE j \in 1..n : Position(j) = i]]

\* batch_results.sort(key=page): ascending page, equal keys keep their order
SortByPage(results) ==
    LET n == Len(results)
        Before(k, j) == results[k].page < results[j].page
                        \/ (results[k].page = results[j].page /\ k < j)
        Position(j) == Cardinality({k \in 1..n : Before(k, j)}) + 1
    IN  [i \in 1..n |-> results[CHOOSE j \in 1..n : Position(j) = i]]

\* a result loop that goes on to the next result at a page without repos
RECURSIVE ProcessResults_skip_empty(_, _, _)
ProcessResults_skip_empty(results, i, acc) ==
    IF i > Len(results) THEN acc
    ELSE IF ~results[i].success
    THEN IF results[i].error = "rate_limit"
         THEN [acc EXCEPT !.out = "none"]
         ELSE ProcessResults_skip_empty(results, i + 1, acc)
    ELSE ProcessResults_skip_empty(results, i + 1,
                        [repos |-> acc.repos \o results[i].repos,
                         filtered |-> acc.filtered + results[i].filtered_out,
                         out |-> acc.out])

\* "for result in batch_results", from index i on: out is "go" while the loop
\* runs on, "none" at "return None", "list" at the return on a page without repos
RECURSIVE ProcessResults(_, _, _)
ProcessResults(results, i, acc) ==
    IF i > Len(results) THEN acc
    ELSE IF ~results[i].success
    THEN IF results[i].error = "rate_limit"
         THEN [acc EXCEPT !.out = "none"]
         ELSE ProcessResults(results, i + 1, acc)
    ELSE IF results[i].repos = <<>>
    THEN [acc EXCEPT !.out = "list"]
    ELSE ProcessResults(results, i + 1,
                        [repos |-> acc.repos \o results[i].repos,
                         filtered |-> acc.filtered + results[i].filtered_out,
                         out |-> acc.out])

NoResponses == [p \in {} |-> ""]

Running == [kind |-> "running", repos |-> <<>>]

ReturnNone == [kind |-> "none", repos |-> <<>>]

ReturnList(list) == [kind |-> "list", repos |-> list]

None == "None"

NoMerge == [called |-> FALSE, file1 |-> <<>>, file2 |-> <<>>, repositories |-> <<>>]

NoCall == [op |-> "none", arg |-> "", pre |-> FALSE, ret |-> FALSE, requests |-> 0]

\* a dict without keys
EmptyDict == <<>>

\* no batch of phase 2 is modelled thread by thread
NoThreads == <<>>

NoEnrichedFile == [exists |-> FALSE, repositories |-> {}]

NoProgress == [enrichment_progress |-> 0, enriched_repos |-> {}]

\* phase 2 is not modelled
IdleEnrich ==
    /\ e_pc = "idle"
    /\ e_runs = 0
    /\ renamed = {}
    /\ run_quotas = <<InitialRemaining>>
    /\ enriched_repos = EmptyDict
    /\ enriched_file = NoEnrichedFile
    /\ enrich_progress = NoProgress
    /\ enrich_saved = NoProgress
    /\ e_batch_start = 0
    /\ started = 0
    /\ running = {}
    /\ completed = <<>>
    /\ yielded = {}
    /\ sub_requests = EmptyDict
    /\ prior_names = {}
    /\ repos_list = <<>>
    /\ actor = "none"

\* no single call is modelled
NoCalls ==
    /\ unit = "none"
    /\ call = NoCall
    /\ ingested = <<>>
    /\ validated = <<>>
    /\ merged = NoMerge
    /\ writers = EmptyDict
    /\ threads = NoThreads
    /\ IdleEnrich

\* no search is modelled
IdleSearch ==
    /\ max_results = 100
    /\ remote = [total |-> 0, rejected |-> {}, empty |-> {}]
    /\ remote_quota = InitialRemaining
    /\ s_pc = "idle"
    /\ batch_start = 0
    /\ page = 1
    /\ in_flight = {}
    /\ batch_results = <<>>
    /\ repos = <<>>
    /\ total_filtered_out = 0
    /\ ret = Running
    /\ requested = <<>>
    /\ responses = NoResponses
    /\ env = NoEnv
    /\ filtered_count = 0

(***************************************************************************)
(* Spec: main() and the collection tasks                                   *)
(***************************************************************************)
\* outcome of one file write: TRUE it succeeds, FALSE it raises
WriteOutcomes == IF io_failures < MaxIOFailures THEN {TRUE, FALSE} ELSE {TRUE}

NoteWrite(ok) ==
    /\ io_failures' = IF ok THEN io_failures ELSE io_failures + 1
    /\ failed_write' = (failed_write \/ ~ok)

\* what search_repos of test2.py returns: None, or a list
SearchReturns(i) ==
    {[none |-> TRUE, repos |-> <<>>, stopped |-> TRUE],
     [none |-> FALSE, repos |-> SearchList(i), stopped |-> FALSE]}

\* what search_repos of test.py returns: always a list, also when the quota
\* gate stopped the search (stopped = TRUE) with what it had collected; with
\* the quota gone the gate stops the search before its first page
SearchReturnsV1(i) ==
    IF quota_gone
    THEN {[none |-> FALSE, repos |-> <<>>, stopped |-> TRUE]}
    ELSE {[none |-> FALSE, repos |-> SearchList(i), stopped |-> FALSE]}
         \cup [none : {FALSE}, repos : {<<>>, SearchList(i)}, stopped : {TRUE}]

\* the cached count a search leaves: the last count it was told, below the
\* floor when the quota stopped it
CachedAfter(res) == IF res.stopped THEN HardFloor - 1 ELSE InitialRemaining

\* the answers the quota endpoint can give now
QuotaResponsesNow ==
    IF quota_gone
    THEN {r \in QuotaResponses : r.kind # "ok" \/ r.remaining < HardFloor}
    ELSE QuotaResponses

Init ==
    /\ impl \in {"test2", "test"}
    /\ first_match \in 1..(Len(Plan) + 1)
    /\ pc = "exited"
    /\ task = 1
    /\ query = 1
    /\ progress_state = DefaultState
    /\ all_repos = NoRepos
    /\ rate_limit_remaining = InitialRemaining
    /\ state_file = NoStateFile
    /\ raw_file = NoRawFile
    /\ exit_reason = "none"
    /\ quota_gone = FALSE
    /\ runs = 0
    /\ io_failures = 0
    /\ mark_returned = {}
    /\ searching = "none"
    /\ quota_stopped = FALSE
    /\ failed_write = FALSE
    /\ IdleSearch
    /\ NoCalls

\* GitHubRepoFetcher.__init__: a fresh process, progress_state from the file
Start ==
    /\ pc = "exited"
    /\ runs < (IF impl = "test2" THEN MaxRuns ELSE MaxRunsV1)
    /\ runs' = runs + 1
    /\ pc' = "check"
    /\ task' = 1
    /\ query' = 1
    /\ progress_state' = load_state(state_file)
    /\ all_repos' = NoRepos
    /\ rate_limit_remaining' = InitialRemaining
    /\ exit_reason' = "none"
    /\ quota_gone' = FALSE
    /\ searching' = "none"
    /\ quota_stopped' = FALSE
    /\ failed_write' = FALSE
    /\ UNCHANGED <<impl, first_match, state_file, raw_file, io_failures, mark_returned>>
    /\ UNCHANGED <<searchVars, callVars>>

\* the process is killed: its memory is gone, the files stay
Crash ==
    /\ pc # "exited"
    /\ pc' = "exited"
    /\ exit_reason' = "crash"
    /\ quota_gone' = FALSE
    /\ task' = 1
    /\ query' = 1
    /\ progress_state' = DefaultState
    /\ all_repos' = NoRepos
    /\ rate_limit_remaining' = InitialRemaining
    /\ searching' = "none"
    /\ quota_stopped' = FALSE
    /\ UNCHANGED <<impl, first_match, state_file, raw_file, runs, mark_returned, io_failures, failed_write>>
    /\ UNCHANGED <<searchVars, callVars>>

\* the process is killed inside "with open(file, 'w')" of the statement it
\* is about to execute: the file is left torn
CrashInWrite ==
    /\ \/ /\ pc = "mark"
          /\ ~is_task_complete(progress_state, Plan[task].name)
          /\ state_file' = TornStateFile
          /\ UNCHANGED raw_file
       \/ /\ pc = "save_data"
          /\ all_repos # NoRepos
          /\ raw_file' = TornRawFile
          /\ UNCHANGED state_file
       \/ /\ pc = "save_raw"
          /\ raw_file' = TornRawFile
          /\ UNCHANGED state_file
       \/ /\ pc = "set_phase"
          /\ state_file' = TornStateFile
          /\ UNCHANGED raw_file
       \/ /\ pc = "enrich"
          /\ progress_state.phase = "enrichment"
          /\ state_file' = TornStateFile
          /\ UNCHANGED raw_file
    /\ pc' = "exited"
    /\ exit_reason' = "crash"
    /\ quota_gone' = FALSE
    /\ task' = 1
    /\ query' = 1
    /\ progress_state' = DefaultState
    /\ all_repos' = NoRepos
    /\ rate_limit_remaining' = InitialRemaining
    /\ searching' = "none"
    /\ quota_stopped' = FALSE
    /\ UNCHANGED <<impl, first_match, runs, mark_returned, io_failures, failed_write>>
    /\ UNCHANGED <<searchVars, callVars>>

\* main() returns (or dies on an exception that nothing catches)
Exit(reason) ==
    /\ pc' = "exited"
    /\ exit_reason' = reason

AfterCheck == IF pc = "check" THEN "load" ELSE "enrich"

\* check_rate_limit of test2.py, called by main() before each phase
check_rate_limit ==
    /\ impl = "test2"
    /\ pc \in {"check", "enrich_check"}
    /\ \E resp \in QuotaResponsesNow :
        /\ rate_limit_remaining' = CheckRemaining(resp, rate_limit_remaining)
        /\ quota_gone' = (quota_gone \/ CheckStops(resp))
        /\ IF CheckStops(resp)
           THEN Exit("quota")
           ELSE pc' = AfterCheck /\ UNCHANGED exit_reason
    /\ searching' = "none"
    /\ UNCHANGED <<impl, first_match, task, query, progress_state, all_repos, state_file, raw_file,
                   runs, mark_returned, quota_stopped,
                   io_failures, failed_write>>
    /\ UNCHANGED <<searchVars, callVars>>

\* check_rate_limit of test.py: below the floor it saves the data and the state
\* inside its try block, so a failing data write is caught and the cached
\* count is returned instead of False
check_rate_limit_v1 ==
    /\ impl = "test"
    /\ pc \in {"check", "enrich_check"}
    /\ \E resp \in QuotaResponsesNow, okd \in WriteOutcomes, oks \in WriteOutcomes :
        /\ rate_limit_remaining' = CheckRemaining(resp, rate_limit_remaining)
        /\ quota_gone' = (quota_gone \/ CheckStops(resp))
        /\ IF ~CheckStops(resp)
           THEN /\ okd /\ oks
                /\ pc' = AfterCheck
                /\ UNCHANGED <<exit_reason, state_file, raw_file, io_failures, failed_write>>
           ELSE IF all_repos # NoRepos /\ ~okd
           THEN /\ oks
                /\ pc' = AfterCheck
                /\ NoteWrite(FALSE)
                /\ UNCHANGED <<exit_reason, state_file, raw_file>>
           ELSE /\ okd
                /\ raw_file' = IF all_repos = NoRepos THEN raw_file
                               ELSE RawContent(all_repos, progress_state)
                /\ state_file' = save_state(progress_state, state_file, oks)
                /\ NoteWrite(oks)
                /\ Exit("quota")
    /\ searching' = "none"
    /\ UNCHANGED <<impl, first_match, task, query, progress_state, all_repos,
                   runs, mark_returned, quota_stopped>>
    /\ UNCHANGED <<searchVars, callVars>>

\* main(): load_existing_repos when the data file exists, then the phase test
main_load ==
    /\ pc = "load"
    /\ all_repos' = load_existing_repos(raw_file, all_repos)
    /\ pc' = IF progress_state.phase = "raw_data" THEN "task" ELSE "enrich_check"
    /\ task' = 1
    /\ query' = 1
    /\ UNCHANGED <<impl, first_match, quota_gone, progress_state, rate_limit_remaining, state_file, raw_file,
                   exit_reason, runs, mark_returned, searching,
                   quota_stopped, io_failures, failed_write>>
    /\ UNCHANGED <<searchVars, callVars>>

\* a plan that ends after its first task
NextTask_first_only == pc' = "save_raw" /\ task' = task /\ query' = 1

\* control leaves the task at index task
NextTask ==
    IF task < Len(Plan)
    THEN pc' = "task" /\ task' = task + 1 /\ query' = 1
    ELSE pc' = "save_raw" /\ task' = task /\ query' = 1

\* fetch_*: "if self.is_task_complete(task_name): return True" / "continue"
fetch_skip ==
    /\ pc = "task"
    /\ query = 1
    /\ is_task_complete(progress_state, Plan[task].name)
    /\ NextTask
    /\ searching' = "none"
    /\ UNCHANGED <<impl, first_match, quota_gone, progress_state, all_repos, rate_limit_remaining, state_file,
                   raw_file, exit_reason, runs, mark_returned,
                   quota_stopped, io_failures, failed_write>>
    /\ UNCHANGED <<searchVars, callVars>>

NoteSearch(name, res) ==
    /\ searching' = name
    /\ quota_stopped' = ((query > 1 /\ quota_stopped) \/ res.stopped)

\* fetch_* of test2.py: one query of the task: search, then either give up
\* (None: return False, and main() returns) or ingest the list
fetch_task ==
    /\ impl = "test2"
    /\ pc = "task"
    /\ ~(query = 1 /\ is_task_complete(progress_state, Plan[task].name))
    /\ \E res \in SearchReturns(task) :
        /\ rate_limit_remaining' = CachedAfter(res)
        /\ quota_gone' = (quota_gone \/ res.stopped)
        /\ NoteSearch(Plan[task].name, res)
        /\ IF res.none
           THEN /\ Exit("quota")
                /\ UNCHANGED <<all_repos, task, query>>
           ELSE /\ all_repos' = IngestList(all_repos, Plan[task], res.repos)
                /\ UNCHANGED exit_reason
                /\ IF query < NumQueries(task)
                   THEN pc' = "task" /\ query' = query + 1 /\ task' = task
                   ELSE pc' = "mark" /\ UNCHANGED <<task, query>>
    /\ UNCHANGED <<impl, first_match, progress_state, state_file, raw_file, runs,
                   mark_returned, io_failures, failed_write>>
    /\ UNCHANGED <<searchVars, callVars>>

\* fetch_* of test.py: search_repos never returns None, so the list is always
\* ingested; a search that the quota gate stopped has saved data and state
\* (check_rate_limit) before it returned
fetch_task_v1 ==
    /\ impl = "test"
    /\ pc = "task"
    /\ ~(query = 1 /\ is_task_complete(progress_state, Plan[task].name))
    /\ \E res \in SearchReturnsV1(task), oks \in WriteOutcomes :
        /\ rate_limit_remaining' = CachedAfter(res)
        /\ quota_gone' = (quota_gone \/ res.stopped)
        /\ NoteSearch(Plan[task].name, res)
        /\ IF res.stopped
           THEN /\ raw_file' = IF all_repos = NoRepos THEN raw_file
                               ELSE RawContent(all_repos, progress_state)
                /\ state_file' = save_state(progress_state, state_file, oks)
                /\ NoteWrite(oks)
           ELSE oks /\ UNCHANGED <<raw_file, state_file, io_failures, failed_write>>
        /\ all_repos' = IngestList(all_repos, Plan[task], res.repos)
        /\ IF query < NumQueries(task)
           THEN pc' = "task" /\ query' = query + 1 /\ task' = task
           ELSE pc' = "mark" /\ UNCHANGED <<task, query>>
    /\ UNCHANGED <<impl, first_match, progress_state, exit_reason, runs, mark_returned>>
    /\ UNCHANGED <<searchVars, callVars>>

\* mark_task_complete: append unless present, then save_state
mark_task_complete ==
    /\ pc = "mark"
    /\ LET name == Plan[task].name IN
       \E ok \in WriteOutcomes :
        /\ progress_state' = AppendCompleted(progress_state, name)
        /\ IF is_task_complete(progress_state, name)
           THEN ok /\ UNCHANGED <<state_file, io_failures, failed_write>>
           ELSE /\ state_file' = save_state(progress_state', state_file, ok)
                /\ NoteWrite(ok)
        /\ mark_returned' = mark_returned \cup {name}
    /\ pc' = "save_data"
    /\ searching' = "none"
    /\ UNCHANGED <<impl, first_match, quota_gone, task, query, all_repos, rate_limit_remaining, raw_file,
                   exit_reason, runs, quota_stopped>>
    /\ UNCHANGED <<searchVars, callVars>>

\* save_current_data after the mark: nothing is written while all_repos is
\* empty; a failing write raises and nothing catches it
save_current_data ==
    /\ pc = "save_data"
    /\ \E ok \in WriteOutcomes :
        IF all_repos = NoRepos
        THEN /\ ok
             /\ NextTask
             /\ UNCHANGED <<raw_file, exit_reason, io_failures, failed_write>>
        ELSE IF ok
        THEN /\ raw_file' = RawContent(all_repos, progress_state)
             /\ NextTask
             /\ UNCHANGED <<exit_reason, io_failures, failed_write>>
        ELSE /\ NoteWrite(FALSE)
             /\ Exit("fatal")
             /\ UNCHANGED <<raw_file, task, query>>
    /\ searching' = "none"
    /\ UNCHANGED <<impl, first_match, quota_gone, progress_state, all_repos, rate_limit_remaining, state_file,
                   runs, mark_returned, quota_stopped>>
    /\ UNCHANGED <<searchVars, callVars>>

\* save_raw_data at the end of phase 1: always writes
save_raw_data ==
    /\ pc = "save_raw"
    /\ \E ok \in WriteOutcomes :
        IF ok
        THEN /\ raw_file' = RawContent(all_repos, progress_state)
             /\ pc' = "set_phase"
             /\ UNCHANGED <<exit_reason, io_failures, failed_write>>
        ELSE /\ NoteWrite(FALSE)
             /\ Exit("fatal")
             /\ UNCHANGED raw_file
    /\ UNCHANGED <<impl, first_match, quota_gone, task, query, progress_state, all_repos, rate_limit_remaining,
                   state_file, runs, mark_returned, searching, quota_stopped>>
    /\ UNCHANGED <<searchVars, callVars>>

\* main(): progress_state['phase'] = 'enrichment'; save_state()
main_set_phase ==
    /\ pc = "set_phase"
    /\ \E ok \in WriteOutcomes :
        /\ progress_state' = [progress_state EXCEPT !.phase = "enrichment"]
        /\ state_file' = save_state(progress_state', state_file, ok)
        /\ NoteWrite(ok)
    /\ pc' = "enrich_check"
    /\ UNCHANGED <<impl, first_match, quota_gone, task, query, all_repos, rate_limit_remaining, raw_file,
                   exit_reason, runs, mark_returned, searching, quota_stopped>>
    /\ UNCHANGED <<searchVars, callVars>>

\* main(): enrich_all_repos(...) and the end of main(); the enrichment pass
\* saves the state after every batch it completes
main_enrich ==
    /\ pc = "enrich"
    /\ \E batches \in BOOLEAN, ok \in WriteOutcomes :
        IF batches /\ progress_state.phase = "enrichment"
        THEN /\ state_file' = save_state(progress_state, state_file, ok)
             /\ NoteWrite(ok)
        ELSE ok /\ UNCHANGED <<state_file, io_failures, failed_write>>
    /\ Exit("done")
    /\ UNCHANGED <<impl, first_match, quota_gone, task, query, progress_state, all_repos, rate_limit_remaining,
                   raw_file, runs, mark_returned, searching, quota_stopped>>
    /\ UNCHANGED <<searchVars, callVars>>

Next ==
    \/ Start
    \/ Crash
    \/ CrashInWrite
    \/ check_rate_limit
    \/ check_rate_limit_v1
    \/ main_load
    \/ fetch_skip
    \/ fetch_task
    \/ fetch_task_v1
    \/ mark_task_complete
    \/ save_current_data
    \/ save_raw_data
    \/ main_set_phase
    \/ main_enrich

Spec == Init /\ [][Next]_vars

\* the interpreter keeps running main(): every request has a timeout and no
\* statement waits; nothing makes the user start another invocation
FairSpec ==
    Spec
    /\ WF_vars(check_rate_limit \/ check_rate_limit_v1 \/ main_load \/ fetch_skip
               \/ fetch_task \/ fetch_task_v1 \/ mark_task_complete
               \/ save_current_data \/ save_raw_data \/ main_set_phase \/ main_enrich)

(***************************************************************************)
(* SpecSearch: one call of search_repos.  A page request is answered in    *)
(* one step: the service counts it, and the worker stores the header       *)
(* count and returns its result.                                           *)
(***************************************************************************)
InitSearch ==
    /\ impl \in {"test2", "test"}
    /\ first_match = 1
    /\ pc = "task"
    /\ task = 1
    /\ query = 1
    /\ progress_state = DefaultState
    /\ all_repos = NoRepos
    /\ state_file = NoStateFile
    /\ raw_file = NoRawFile
    /\ exit_reason = "none"
    /\ quota_gone = FALSE
    /\ runs = 1
    /\ io_failures = 0
    /\ mark_returned = {}
    /\ searching = "top_repos"
    /\ quota_stopped = FALSE
    /\ failed_write = FALSE
    /\ max_results \in Targets
    /\ remote \in Remotes
    /\ env \in Envs
    /\ rate_limit_remaining = env.cached
    /\ remote_quota = env.quota
    /\ s_pc = "gate"
    /\ batch_start = 0
    /\ page = 1
    /\ in_flight = {}
    /\ batch_results = <<>>
    /\ repos = <<>>
    /\ total_filtered_out = 0
    /\ ret = Running
    /\ requested = <<>>
    /\ responses = NoResponses
    /\ filtered_count = 0
    /\ NoCalls

\* a batch of every page that is left
batch_pages_all(start, n) == [i \in 1..(max_pages(n) - start) |-> start + i]

\* a batch that asks again for the last page of the batch before it
batch_pages_again(start, n) ==
    (IF start = 0 THEN <<>> ELSE <<start>>)
    \o [i \in 1..(Min(start + batch_size + 1, max_pages(n) + 1) - (start + 1)) |-> start + i]

\* batch_pages = range(batch_start + 1, min(batch_start + batch_size + 1, max_pages + 1))
batch_pages(start, n) ==
    [i \in 1..(Min(start + batch_size + 1, max_pages(n) + 1) - (start + 1)) |-> start + i]

\* test2.py, head of the batch loop: the quota gate, then the pages of the
\* batch are submitted to the pool
search_gate ==
    /\ impl = "test2"
    /\ s_pc = "gate"
    /\ LET w == wait_for_rate_limit(rate_limit_remaining) IN
        /\ rate_limit_remaining' = w.remaining
        /\ IF w.go
           THEN /\ in_flight' = Range(batch_pages(batch_start, max_results))
                /\ requested' = requested \o batch_pages(batch_start, max_results)
                /\ batch_results' = <<>>
                /\ s_pc' = "fetching"
                /\ ret' = ret
           ELSE /\ ret' = ReturnNone
                /\ s_pc' = "returned"
                /\ UNCHANGED <<in_flight, requested, batch_results>>
    /\ UNCHANGED <<impl, progress_state, state_file, raw_file, io_failures, failed_write>>
    /\ UNCHANGED <<max_results, remote, remote_quota, batch_start, page, repos,
                   total_filtered_out, responses, filtered_count>>
    /\ UNCHANGED <<env, mainVars, callVars>>

\* fetch_page on a pool thread: one page of the batch completes
fetch_page ==
    /\ impl = "test2"
    /\ s_pc = "fetching"
    /\ \E p \in in_flight :
        LET k == Transport(p) IN
        /\ rate_limit_remaining' = HeaderAfter(k, rate_limit_remaining)
        /\ remote_quota' = IF k = "ok" THEN remote_quota - 1 ELSE remote_quota
        /\ batch_results' = Append(batch_results,
                                   IF k = "ok" THEN PageSuccess(p) ELSE PageFailure(p, k))
        /\ in_flight' = in_flight \ {p}
        /\ responses' = Put(responses, p, k)
    /\ UNCHANGED <<impl, progress_state, state_file, raw_file, io_failures, failed_write>>
    /\ UNCHANGED <<max_results, remote, s_pc, batch_start, page, repos,
                   total_filtered_out, ret, requested, filtered_count>>
    /\ UNCHANGED <<env, mainVars, callVars>>

\* test2.py: every page of the batch has completed: sort, then the result loop
\* and the test for enough repos
process_batch ==
    /\ impl = "test2"
    /\ s_pc = "fetching"
    /\ in_flight = {}
    /\ LET acc == ProcessResults(SortByPage(batch_results), 1,
                                 [repos |-> repos, filtered |-> total_filtered_out,
                                  out |-> "go"])
       IN /\ repos' = acc.repos
          /\ total_filtered_out' = acc.filtered
          /\ CASE acc.out = "none" ->
                    /\ ret' = ReturnNone
                    /\ s_pc' = "returned"
                    /\ UNCHANGED batch_start
               [] acc.out = "list" ->
                    /\ ret' = ReturnList(Truncate(acc.repos, max_results))
                    /\ s_pc' = "returned"
                    /\ UNCHANGED batch_start
               [] acc.out = "go" ->
                    /\ ret' = ret
                    /\ IF Len(acc.repos) >= max_results
                          \/ batch_start + batch_size >= max_pages(max_results)
                       THEN s_pc' = "finish" /\ UNCHANGED batch_start
                       ELSE s_pc' = "gate" /\ batch_start' = batch_start + batch_size
    /\ UNCHANGED <<impl, progress_state, rate_limit_remaining, state_file, raw_file,
                   io_failures, failed_write>>
    /\ UNCHANGED <<max_results, remote, remote_quota, page, in_flight, batch_results,
                   requested, responses, env, filtered_count>>
    /\ UNCHANGED <<mainVars, callVars>>

\* test2.py, after the loop: the filtered count is added up, the list is cut
search_finish ==
    /\ impl = "test2"
    /\ s_pc = "finish"
    /\ filtered_count' = filtered_count + total_filtered_out
    /\ ret' = ReturnList(Truncate(repos, max_results))
    /\ s_pc' = "returned"
    /\ UNCHANGED <<impl, progress_state, rate_limit_remaining, state_file, raw_file,
                   io_failures, failed_write>>
    /\ UNCHANGED <<max_results, remote, remote_quota, batch_start, page, in_flight,
                   batch_results, repos, total_filtered_out, requested, responses, env>>
    /\ UNCHANGED <<mainVars, callVars>>

\* test.py: control moves to the next page, or leaves the loop after the last
NextPageV1 ==
    IF page < last_page_v1(max_results)
    THEN s_pc' = "gate" /\ page' = page + 1
    ELSE s_pc' = "finish" /\ page' = page

\* test.py, check_rate_limit below the floor: all_repos is empty during the
\* call, so only the state is saved; then "return repos"
StopV1(ok) ==
    /\ state_file' = save_state(progress_state, state_file, ok)
    /\ NoteWrite(ok)
    /\ ret' = ReturnList(repos)
    /\ s_pc' = "returned"

\* test.py, head of the page loop: the quota gate
search_gate_v1 ==
    /\ impl = "test"
    /\ s_pc = "gate"
    /\ \E ok \in WriteOutcomes :
        LET w == wait_for_rate_limit(rate_limit_remaining) IN
        /\ rate_limit_remaining' = w.remaining
        /\ IF w.go
           THEN /\ ok
                /\ s_pc' = "request"
                /\ UNCHANGED <<ret, state_file, io_failures, failed_write>>
           ELSE StopV1(ok)
    /\ UNCHANGED <<impl, progress_state, raw_file>>
    /\ UNCHANGED <<max_results, remote, remote_quota, batch_start, page, in_flight,
                   batch_results, repos, total_filtered_out, requested, responses,
                   filtered_count>>
    /\ UNCHANGED <<env, mainVars, callVars>>

\* test.py, body of the page loop: the request and the handling of its answer
search_request_v1 ==
    /\ impl = "test"
    /\ s_pc = "request"
    /\ requested' = Append(requested, page)
    /\ LET k == Transport(page) IN
        /\ responses' = Put(responses, page, k)
        /\ remote_quota' = IF k = "ok" THEN remote_quota - 1 ELSE remote_quota
        /\ CASE k = "ok" ->
                  /\ rate_limit_remaining' = HeaderAfter(k, rate_limit_remaining)
                  /\ IF PageItems(page) = <<>>
                     THEN s_pc' = "finish" /\ UNCHANGED <<repos, page>>
                     ELSE repos' = repos \o PageItems(page) /\ NextPageV1
                  /\ UNCHANGED <<ret, state_file, io_failures, failed_write>>
             [] k = "rate_limit" ->
                  \E ok \in WriteOutcomes :
                      LET w == wait_for_rate_limit(HeaderAfter(k, rate_limit_remaining)) IN
                      /\ rate_limit_remaining' = w.remaining
                      /\ repos' = repos
                      /\ IF w.go
                         THEN /\ ok
                              /\ NextPageV1
                              /\ UNCHANGED <<ret, state_file, io_failures, failed_write>>
                         ELSE StopV1(ok) /\ page' = page
             [] k \in {"HTTP 500", "exception"} ->
                  /\ rate_limit_remaining' = HeaderAfter(k, rate_limit_remaining)
                  /\ s_pc' = "finish"
                  /\ UNCHANGED <<repos, page, ret, state_file, io_failures, failed_write>>
    /\ UNCHANGED <<impl, progress_state, raw_file>>
    /\ UNCHANGED <<max_results, remote, batch_start, in_flight, batch_results,
                   total_filtered_out, filtered_count>>
    /\ UNCHANGED <<env, mainVars, callVars>>

\* test.py, after the loop: "return repos[:max_results]"
search_finish_v1 ==
    /\ impl = "test"
    /\ s_pc = "finish"
    /\ ret' = ReturnList(Truncate(repos, max_results))
    /\ s_pc' = "returned"
    /\ UNCHANGED <<impl, progress_state, rate_limit_remaining, state_file, raw_file,
                   io_failures, failed_write>>
    /\ UNCHANGED <<max_results, remote, remote_quota, batch_start, page, in_flight,
                   batch_results, repos, total_filtered_out, requested, responses, env,
                   filtered_count>>
    /\ UNCHANGED <<mainVars, callVars>>

NextSearch ==
    \/ search_gate
    \/ fetch_page
    \/ process_batch
    \/ search_finish
    \/ search_gate_v1
    \/ search_request_v1
    \/ search_finish_v1

SpecSearch == InitSearch /\ [][NextSearch]_vars

\* the interpreter keeps running the call: requests time out, workers return
FairSpecSearch == SpecSearch /\ WF_vars(NextSearch)

(***************************************************************************)
(* Tier 2 validation.  A text is the sequence of its tokens: words (runs   *)
(* of word characters) and the separators between them (blanks, hyphens).  *)
(***************************************************************************)
max_fork_star_ratio == 2

min_description == 20

Blanks == {" ", "      ", "                      "}

Separators == Blanks \cup {"-"}

\* str.lower() of a token
LowerToken(t) ==
    CASE t = "Tutorial" -> "tutorial"
      [] t = "Demo" -> "demo"
      [] t = "Awesome" -> "awesome"
      [] OTHER -> t

\* text.lower()
lower(text) == [i \in 1..Len(text) |-> LowerToken(text[i])]

\* len(text)
RECURSIVE len(_)
len(text) == IF text = <<>> THEN 0 ELSE Len(Head(text)) + len(Tail(text))

\* text.strip()
RECURSIVE strip(_)
strip(text) ==
    IF text = <<>> THEN text
    ELSE IF Head(text) \in Blanks THEN strip(Tail(text))
    ELSE IF text[Len(text)] \in Blanks THEN strip(SubSeq(text, 1, Len(text) - 1))
    ELSE text

\* the regular expressions of the three pattern lists, by shape:
\* \bw\b; \ba[\s-]b\b; \ba[\s-]?b\b; ^w[\s-]; \ba\b.*\bb\b
Word(w) == [kind |-> "word", a |-> w, b |-> ""]

Joined(a, b) == [kind |-> "joined", a |-> a, b |-> b]

MaybeJoined(a, b) == [kind |-> "maybe_joined", a |-> a, b |-> b]

AtStart(w) == [kind |-> "at_start", a |-> w, b |-> ""]

Followed(a, b) == [kind |-> "followed", a |-> a, b |-> b]

tutorial_patterns ==
    <<Word("tutorial"), Word("example"), Word("demo"), Word("sample"),
      Word("boilerplate"), Word("template"), Word("starter"), Word("learning"),
      Word("course"), Word("workshop"), Word("practice"), Word("exercise")>>

portfolio_patterns ==
    <<Word("portfolio"), Word("resume"), Word("cv"), MaybeJoined("personal", "site"),
      MaybeJoined("my", "website"), Word("profile")>>

awesome_patterns ==
    <<AtStart("awesome"), Joined("awesome", "list"), Joined("curated", "list"),
      Followed("resources", "list"), Word("collection")>>

\* re.search(pattern, text)
re_search(pattern, text) ==
    LET n == Len(text)
        Adjacent == \E i \in 1..(n - 2) :
                        /\ text[i] = pattern.a
                        /\ text[i + 1] \in {" ", "-"}
                        /\ text[i + 2] = pattern.b
    IN  CASE pattern.kind = "word" -> \E i \in 1..n : text[i] = pattern.a
          [] pattern.kind = "joined" -> Adjacent
          [] pattern.kind = "maybe_joined" ->
                Adjacent \/ \E i \in 1..n : text[i] = pattern.a \o pattern.b
          [] pattern.kind = "at_start" ->
                n >= 2 /\ text[1] = pattern.a /\ text[2] \in Separators
          [] pattern.kind = "followed" ->
                \E i, j \in 1..n : i < j /\ text[i] = pattern.a /\ text[j] = pattern.b

\* matches_pattern(text, patterns)
matches_pattern(text, patterns) ==
    IF text = <<>> THEN FALSE
    ELSE \E k \in 1..Len(patterns) : re_search(patterns[k], lower(text))

\* a value of the key 'description': null or a string
Null == [null |-> TRUE, text |-> <<>>]

Str(text) == [null |-> FALSE, text |-> text]

\* repo.get('description', '') or ''
DescriptionOf(repo) == IF repo.description.null THEN <<>> ELSE repo.description.text

\* f"{name} {description}"
combined_text(repo) == repo.name \o <<" ">> \o DescriptionOf(repo)

\* a validator that measures the description as it came
is_legitimate_project_unstripped(repo) ==
    LET description == DescriptionOf(repo)
        stars == repo.stargazers_count
        forks == repo.forks_count
    IN  IF repo.license = None THEN <<FALSE, "No license">>
        ELSE IF description = <<>> \/ len(description) < min_description
        THEN <<FALSE, "No meaningful description">>
        ELSE IF matches_pattern(combined_text(repo), tutorial_patterns)
        THEN <<FALSE, "Tutorial/demo/example project">>
        ELSE IF matches_pattern(combined_text(repo), portfolio_patterns)
        THEN <<FALSE, "Portfolio/personal project">>
        ELSE IF matches_pattern(combined_text(repo), awesome_patterns)
        THEN <<FALSE, "Curated list/awesome collection">>
        ELSE IF stars > 0 /\ forks > max_fork_star_ratio * stars
        THEN <<FALSE, "High fork/star ratio">>
        ELSE IF stars > 50 /\ repo.watchers_count < 2
        THEN <<FALSE, "Low engagement (watchers)">>
        ELSE IF stars > 100 /\ repo.open_issues_count = 0 /\ forks < 5
        THEN <<FALSE, "Low engagement (no issues/forks)">>
        ELSE <<TRUE, None>>

\* is_legitimate_project(repo): (is_valid, reason); forks / stars > ratio is
\* forks > ratio * stars for stars > 0
is_legitimate_project(repo) ==
    LET description == DescriptionOf(repo)
        stars == repo.stargazers_count
        forks == repo.forks_count
    IN  IF repo.license = None THEN <<FALSE, "No license">>
        ELSE IF description = <<>> \/ len(strip(description)) < min_description
        THEN <<FALSE, "No meaningful description">>
        ELSE IF matches_pattern(combined_text(repo), tutorial_patterns)
        THEN <<FALSE, "Tutorial/demo/example project">>
        ELSE IF matches_pattern(combined_text(repo), portfolio_patterns)
        THEN <<FALSE, "Portfolio/personal project">>
        ELSE IF matches_pattern(combined_text(repo), awesome_patterns)
        THEN <<FALSE, "Curated list/awesome collection">>
        ELSE IF stars > 0 /\ forks > max_fork_star_ratio * stars
        THEN <<FALSE, "High fork/star ratio">>
        ELSE IF stars > 50 /\ repo.watchers_count < 2
        THEN <<FALSE, "Low engagement (watchers)">>
        ELSE IF stars > 100 /\ repo.open_issues_count = 0 /\ forks < 5
        THEN <<FALSE, "Low engagement (no issues/forks)">>
        ELSE <<TRUE, None>>

\* the item as the call leaves it: the method reads it with .get only
ItemAfter(repo) == repo

\* a validator that rejects an item it has judged before
Validate_once(repo, earlier) ==
    IF \E i \in 1..Len(earlier) : earlier[i].item = repo
    THEN [item |-> repo, after |-> repo, result |-> <<FALSE, "Duplicate">>]
    ELSE [item |-> repo, after |-> ItemAfter(repo), result |-> is_legitimate_project(repo)]

\* one call self.is_legitimate_project(item) of a fetcher that has made the
\* calls earlier
Validate(repo, earlier) ==
    [item |-> repo, after |-> ItemAfter(repo), result |-> is_legitimate_project(repo)]

(***************************************************************************)
(* SpecCalls: the methods of one component called in any order             *)
(***************************************************************************)
Units == {"aggregator", "registry", "gate", "pool"}

\* names and descriptions of the items that are validated
Names ==
    {<<"fastjson">>, <<"awesome", "-", "json">>, <<"json", "-", "Demo">>,
     <<"awesomejson">>}

Descriptions ==
    {Null,
     Str(<<>>),
     Str(<<"                      ">>),
     Str(<<"fast", " ", "json", " ", "parser">>),
     Str(<<"      ", "fast", " ", "json", " ", "parser">>),
     Str(<<"a", " ", "fast", " ", "parser", " ", "for", " ", "json", " ", "documents">>),
     Str(<<"a", " ", "Tutorial", " ", "for", " ", "json", " ", "documents">>),
     Str(<<"my", " ", "personal", "-", "site", " ", "and", " ", "projects">>),
     Str(<<"a", " ", "curated", " ", "list", " ", "of", " ", "json", " ", "tools">>),
     Str(<<"a", " ", "collection", " ", "of", " ", "tutorial", " ", "code">>),
     Str(<<"resources", " ", "and", " ", "a", " ", "reading", " ", "list">>),
     Str(<<"tutorials", " ", "and", " ", "demos", " ", "for", " ", "json">>)}

Licenses == {None, "MIT"}

\* stargazers_count, forks_count, watchers_count, open_issues_count
Counts ==
    [stargazers_count : {0, 1, 51, 101}, forks_count : {0, 2, 3, 5, 300},
     watchers_count : {1, 2}, open_issues_count : {0, 1}]

Item(name, description, license, counts) ==
    [name |-> name, description |-> description, license |-> license,
     stargazers_count |-> counts.stargazers_count, forks_count |-> counts.forks_count,
     watchers_count |-> counts.watchers_count,
     open_issues_count |-> counts.open_issues_count]

GoodCounts ==
    [stargazers_count |-> 101, forks_count |-> 5, watchers_count |-> 2,
     open_issues_count |-> 1]

GoodDescription ==
    Str(<<"a", " ", "fast", " ", "parser", " ", "for", " ", "json", " ", "documents">>)

\* the items validated: every text with four sets of counts, and every set
\* of counts with three texts
Items ==
    {Item(n, d, l, c) :
        n \in Names, d \in Descriptions, l \in Licenses,
        c \in {GoodCounts,
               [GoodCounts EXCEPT !.forks_count = 300],
               [GoodCounts EXCEPT !.watchers_count = 1],
               [GoodCounts EXCEPT !.open_issues_count = 0, !.forks_count = 3]}}
    \cup {Item(<<"fastjson">>, d, "MIT", c) :
            d \in {GoodDescription, Str(<<"fast", " ", "json", " ", "parser">>),
                   Str(<<"a", " ", "collection", " ", "of", " ", "tutorial", " ", "code">>)},
            c \in Counts}

\* the items validated between two validations of the same item
Probes ==
    {Item(<<"fastjson">>, GoodDescription, "MIT", GoodCounts),
     Item(<<"fastjson">>, GoodDescription, "MIT",
          [GoodCounts EXCEPT !.stargazers_count = 0, !.forks_count = 300]),
     Item(<<"json", "-", "Demo">>, GoodDescription, "MIT", GoodCounts),
     Item(<<"fastjson">>, GoodDescription, "MIT", [GoodCounts EXCEPT !.forks_count = 300])}

(***************************************************************************)
(* test5.py: merge_repositories.  A dataset is the list 'repositories' of  *)
(* a file; the value returned is the dict repos_dict, id -> record, and    *)
(* the list of a merged record's sources is given as a set (list(set)).    *)
(***************************************************************************)
\* repo.get('id') of a record without id: null, missing or 0 are all falsy
NoId == 0

Repo(id, readme, sources) == [id |-> id, readme |-> readme, sources |-> sources]

\* repo.copy() as the result holds it
Copied(repo) == [id |-> repo.id, readme |-> repo.readme, sources |-> Range(repo.sources)]

\* a merge that takes the readme of the second file whatever it is
MergeInto_new_readme(existing, repo) ==
    [id |-> existing.id, readme |-> strip(repo.readme),
     sources |-> existing.sources \cup Range(repo.sources)]

\* the record of an id of both files: the stripped new readme if it is not
\* empty, '' if both are empty, else the existing readme; the sources united
MergeInto(existing, repo) ==
    LET existing_readme == strip(existing.readme)
        new_readme == strip(repo.readme)
    IN  [id |-> existing.id,
         readme |-> IF new_readme # <<>> THEN new_readme
                    ELSE IF existing_readme = <<>> THEN <<>>
                    ELSE existing.readme,
         sources |-> existing.sources \cup Range(repo.sources)]

\* "for repo in file1_data.get('repositories', [])", from index i on
RECURSIVE LoadFirst(_, _, _)
LoadFirst(file1, i, repos_dict) ==
    IF i > Len(file1) THEN repos_dict
    ELSE LoadFirst(file1, i + 1,
                   IF file1[i].id # NoId
                   THEN Put(repos_dict, file1[i].id, Copied(file1[i]))
                   ELSE repos_dict)

\* "for repo in file2_data.get('repositories', [])", from index i on
RECURSIVE MergeSecond(_, _, _)
MergeSecond(file2, i, repos_dict) ==
    IF i > Len(file2) THEN repos_dict
    ELSE LET repo == file2[i] IN
         MergeSecond(file2, i + 1,
                     IF repo.id = NoId THEN repos_dict
                     ELSE IF repo.id \in DOMAIN repos_dict
                     THEN Put(repos_dict, repo.id, MergeInto(repos_dict[repo.id], repo))
                     ELSE Put(repos_dict, repo.id, Copied(repo)))

merge_repositories(file1, file2) == MergeSecond(file2, 1, LoadFirst(file1, 1, EmptyDict))

\* the records of the datasets that are merged
Repos ==
    {Repo(id, readme, sources) :
        id \in {NoId, 1, 2}, readme \in {<<>>, <<" ">>, <<"A">>},
        sources \in {<<"top_repos">>, <<"gsoc", "top_repos">>}}

\* datasets of up to two records, written in the order of their ids
Datasets ==
    {<<>>} \cup {<<r>> : r \in Repos}
    \cup {pair \in Repos \X Repos : pair[1].id <= pair[2].id}

\* X-RateLimit-Remaining counts that a page response leaves in the cache
HeaderVals == {0, HardFloor - 1, HardFloor, LowWater - 1, LowWater, InitialRemaining}

\* the task names the calls of the registry are made with
RegistryNames == {Plan[i].name : i \in 1..MaxNames}

\* variables that no call of a single method changes
callFrame == <<impl, first_match, pc, task, query, exit_reason, quota_gone, runs,
               mark_returned, searching, quota_stopped, searchVars, unit, enrichVars,
               writers, validated, merged, threads>>

InitCalls ==
    /\ impl = "test2"
    /\ first_match = 1
    /\ pc = "task"
    /\ task = 1
    /\ query = 1
    /\ progress_state = DefaultState
    /\ all_repos = NoRepos
    /\ rate_limit_remaining = InitialRemaining
    /\ state_file = NoStateFile
    /\ raw_file = NoRawFile
    /\ exit_reason = "none"
    /\ quota_gone = FALSE
    /\ runs = 1
    /\ io_failures = 0
    /\ mark_returned = {}
    /\ searching = "none"
    /\ quota_stopped = FALSE
    /\ failed_write = FALSE
    /\ IdleSearch
    /\ unit \in Units
    /\ call = NoCall
    /\ ingested = <<>>
    /\ validated = <<>>
    /\ merged = NoMerge
    /\ writers = EmptyDict
    /\ threads = NoThreads
    /\ IdleEnrich

\* the tasks whose ingestion loops are called: the first task of the plan
\* for each fetch_* method
IngestTasks ==
    {i \in 1..Len(Plan) : \A j \in 1..(i - 1) : Plan[j].kind # Plan[i].kind}

\* fetch_*, body of "for repo in repos": the task at index i of the plan
\* ingests one repo of the list a search returned to it
call_ingest ==
    /\ unit = "aggregator"
    /\ Len(ingested) < MaxIngest
    /\ \E i \in IngestTasks, repo \in Payloads :
        /\ all_repos' = ingest_repo(all_repos, Plan[i], repo)
        /\ ingested' = Append(ingested, [task |-> i, repo |-> repo])
        /\ call' = [op |-> "ingest", arg |-> Plan[i].name,
                    pre |-> repo.full_name \in DOMAIN all_repos,
                    ret |-> TRUE, requests |-> 0]
    /\ UNCHANGED <<progress_state, rate_limit_remaining, state_file, raw_file,
                   io_failures, failed_write>>
    /\ UNCHANGED callFrame

\* save_current_data, then a fresh process that calls load_existing_repos
call_reload ==
    /\ unit = "aggregator"
    /\ all_repos # NoRepos
    /\ raw_file' = RawContent(all_repos, progress_state)
    /\ all_repos' = load_existing_repos(raw_file', NoRepos)
    /\ call' = [op |-> "reload", arg |-> "", pre |-> raw_file.exists,
                ret |-> TRUE, requests |-> 0]
    /\ UNCHANGED <<progress_state, rate_limit_remaining, state_file,
                   io_failures, failed_write, ingested>>
    /\ UNCHANGED callFrame

\* mark_task_complete(name); ret: save_state was called and wrote the file
call_mark_task_complete ==
    /\ unit = "registry"
    /\ \E name \in RegistryNames, ok \in WriteOutcomes :
        /\ progress_state' = AppendCompleted(progress_state, name)
        /\ IF is_task_complete(progress_state, name)
           THEN ok /\ UNCHANGED <<state_file, io_failures, failed_write>>
           ELSE /\ state_file' = save_state(progress_state', state_file, ok)
                /\ NoteWrite(ok)
        /\ call' = [op |-> "mark_task_complete", arg |-> name,
                    pre |-> is_task_complete(progress_state, name),
                    ret |-> (ok /\ ~is_task_complete(progress_state, name)),
                    requests |-> 0]
    /\ UNCHANGED <<all_repos, rate_limit_remaining, raw_file, ingested>>
    /\ UNCHANGED callFrame

\* main(): progress_state['phase'] = 'enrichment'; save_state()
call_set_phase ==
    /\ unit = "registry"
    /\ \E ok \in WriteOutcomes :
        /\ progress_state' = [progress_state EXCEPT !.phase = "enrichment"]
        /\ state_file' = save_state(progress_state', state_file, ok)
        /\ NoteWrite(ok)
        /\ call' = [op |-> "set_phase", arg |-> "enrichment",
                    pre |-> (progress_state.phase = "enrichment"),
                    ret |-> ok, requests |-> 0]
    /\ UNCHANGED <<all_repos, rate_limit_remaining, raw_file, ingested>>
    /\ UNCHANGED callFrame

\* a fresh process: __init__ calls load_state
call_load_state ==
    /\ unit = "registry"
    /\ progress_state' = load_state(state_file)
    /\ failed_write' = FALSE
    /\ call' = [op |-> "load_state", arg |-> "", pre |-> state_file.exists,
                ret |-> TRUE, requests |-> 0]
    /\ UNCHANGED <<all_repos, rate_limit_remaining, state_file, raw_file,
                   io_failures, ingested>>
    /\ UNCHANGED callFrame

\* fetch_page: the response header count is stored in the cache
call_fetch_page ==
    /\ unit = "gate"
    /\ \E h \in HeaderVals :
        /\ rate_limit_remaining' = h
        /\ call' = [op |-> "fetch_page", arg |-> "", pre |-> FALSE,
                    ret |-> TRUE, requests |-> 1]
    /\ UNCHANGED <<progress_state, all_repos, state_file, raw_file, io_failures,
                   failed_write, ingested>>
    /\ UNCHANGED callFrame

\* wait_for_rate_limit(); arg: the answer of the quota endpoint, if asked
call_wait_for_rate_limit ==
    /\ unit = "gate"
    /\ \E resp \in QuotaResponses :
        LET w == wait_for_rate_limit_on(rate_limit_remaining, resp) IN
        /\ rate_limit_remaining' = w.remaining
        /\ call' = [op |-> "wait_for_rate_limit",
                    arg |-> IF w.requests = 0 THEN "" ELSE resp.kind,
                    pre |-> (rate_limit_remaining < LowWater),
                    ret |-> w.go, requests |-> w.requests]
    /\ UNCHANGED <<progress_state, all_repos, state_file, raw_file, io_failures,
                   failed_write, ingested>>
    /\ UNCHANGED callFrame

\* variables that no step of a pool thread changes
poolFrame == <<impl, mainVars, progress_state, state_file, raw_file, io_failures,
               failed_write, max_results, remote, s_pc, batch_start, page, batch_results,
               repos, total_filtered_out, ret, responses, env, filtered_count, unit,
               ingested, validated, merged, enrichVars, threads>>

\* search_repos, executor.submit(self.fetch_page, ...) for the pages of a batch
call_submit ==
    /\ unit = "pool"
    /\ requested = <<>>
    /\ in_flight' = Range(batch_pages(0, per_page * batch_size))
    /\ requested' = batch_pages(0, per_page * batch_size)
    /\ call' = [op |-> "submit", arg |-> "", pre |-> FALSE, ret |-> TRUE, requests |-> 0]
    /\ UNCHANGED <<rate_limit_remaining, remote_quota, writers>>
    /\ UNCHANGED poolFrame

\* fetch_page, "response = requests.get(...)": the thread of page p gets its
\* response; the service has counted the request
call_receive ==
    /\ unit = "pool"
    /\ \E p \in in_flight \ DOMAIN writers :
        /\ writers' = Put(writers, p, remote_quota - 1)
        /\ remote_quota' = remote_quota - 1
        /\ call' = [op |-> "receive", arg |-> "", pre |-> FALSE, ret |-> TRUE,
                    requests |-> 1]
    /\ UNCHANGED <<rate_limit_remaining, in_flight, requested>>
    /\ UNCHANGED poolFrame

\* fetch_page, "self.rate_limit_remaining = int(response.headers.get(...))":
\* the thread of page p stores the count of its response and returns
call_store ==
    /\ unit = "pool"
    /\ \E p \in DOMAIN writers :
        /\ rate_limit_remaining' = writers[p]
        /\ writers' = [x \in DOMAIN writers \ {p} |-> writers[x]]
        /\ in_flight' = in_flight \ {p}
        /\ call' = [op |-> "store", arg |-> "", pre |-> FALSE, ret |-> TRUE,
                    requests |-> 0]
    /\ UNCHANGED <<remote_quota, requested>>
    /\ UNCHANGED poolFrame

\* fetch_page, "is_valid, reason = self.is_legitimate_project(item)": the
\* first item is any item, the later ones are probes or an item judged before
call_is_legitimate_project ==
    /\ unit = "validator"
    /\ Len(validated) < MaxValidated
    /\ \E repo \in IF validated = <<>> THEN Items
                   ELSE Probes \cup {validated[i].item : i \in 1..Len(validated)} :
        /\ validated' = Append(validated, Validate(repo, validated))
        /\ call' = [op |-> "is_legitimate_project", arg |-> "", pre |-> FALSE,
                    ret |-> Validate(repo, validated).result[1], requests |-> 0]
    /\ UNCHANGED <<progress_state, all_repos, rate_limit_remaining, state_file, raw_file,
                   io_failures, failed_write, ingested>>
    /\ UNCHANGED <<impl, first_match, pc, task, query, exit_reason, quota_gone, runs,
                   mark_returned, searching, quota_stopped, searchVars, unit, enrichVars,
                   writers, merged, threads>>

\* test5.py, main(): merged_data = merge_repositories(file1_data, file2_data)
call_merge_repositories ==
    /\ unit = "merger"
    /\ ~merged.called
    /\ \E file1 \in Datasets, file2 \in Datasets :
        merged' = [called |-> TRUE, file1 |-> file1, file2 |-> file2,
                   repositories |-> merge_repositories(file1, file2)]
    /\ call' = [op |-> "merge_repositories", arg |-> "", pre |-> FALSE, ret |-> TRUE,
                requests |-> 0]
    /\ UNCHANGED <<progress_state, all_repos, rate_limit_remaining, state_file, raw_file,
                   io_failures, failed_write, ingested>>
    /\ UNCHANGED <<impl, first_match, pc, task, query, exit_reason, quota_gone, runs,
                   mark_returned, searching, quota_stopped, searchVars, unit, enrichVars,
                   writers, validated, threads>>

NextCalls ==
    \/ call_fetch_page
    \/ call_wait_for_rate_limit
    \/ call_ingest
    \/ call_reload
    \/ call_mark_task_complete
    \/ call_set_phase
    \/ call_load_state
    \/ call_submit
    \/ call_receive
    \/ call_store

SpecCalls == InitCalls /\ [][NextCalls]_vars

(***************************************************************************)
(* SpecPure: the functions without side effects called in any order, the   *)
(* Tier 2 validator of test2.py or merge_repositories of test5.py.         *)
(***************************************************************************)
InitPure ==
    /\ impl = "test2"
    /\ first_match = 1
    /\ pc = "task"
    /\ task = 1
    /\ query = 1
    /\ progress_state = DefaultState
    /\ all_repos = NoRepos
    /\ rate_limit_remaining = InitialRemaining
    /\ state_file = NoStateFile
    /\ raw_file = NoRawFile
    /\ exit_reason = "none"
    /\ quota_gone = FALSE
    /\ runs = 1
    /\ io_failures = 0
    /\ mark_returned = {}
    /\ searching = "none"
    /\ quota_stopped = FALSE
    /\ failed_write = FALSE
    /\ IdleSearch
    /\ unit \in {"validator", "merger"}
    /\ call = NoCall
    /\ ingested = <<>>
    /\ validated = <<>>
    /\ merged = NoMerge
    /\ writers = EmptyDict
    /\ threads = NoThreads
    /\ IdleEnrich

NextPure ==
    \/ call_is_legitimate_project
    \/ call_merge_repositories

SpecPure == InitPure /\ [][NextPure]_vars

(***************************************************************************)
(* SpecThreads: the threads of one batch of phase 2, in test2.py and in    *)
(* test.py.  A write of a file takes two steps, the open and the end of    *)
(* the with block; file opens are taken to succeed.  The records of the    *)
(* output file are followed in SpecEnrich.                                 *)
(***************************************************************************)
\* the orchestrating thread of enrich_all_repos
Orchestrator == PoolThreads + 1

\* the positions at which a thread holds a file open for writing
WritingData == {"writing_data"}

WritingState == {"writing_state", "writing_batch_state"}

WritingOutput == {"writing_output", "writing_batch_output"}

\* the threads other than t that hold a file open at one of the positions
OtherWriters(t, positions) == {x \in DOMAIN threads \ {t} : threads[x] \in positions}

\* variables that no step of a thread of the batch changes
threadFrame == <<impl, first_match, pc, task, query, exit_reason, quota_gone, runs,
                 mark_returned, searching, quota_stopped, searchVars, unit, enrichVars,
                 writers, validated, merged, progress_state, all_repos, io_failures,
                 failed_write, ingested, call>>

\* check_rate_limit of test.py saves the data and the state before it returns
\* False, check_rate_limit of test2.py returns False without a save
SavesBeforeStop(i) == i = "test"

\* enrich_repo_data_single, "if not self.wait_for_rate_limit(): return None":
\* worker t begins; a worker that is not let through returns None, in test.py
\* after check_rate_limit has saved the data and the state
worker_wait_for_rate_limit ==
    /\ \E t \in 1..PoolThreads, resp \in QuotaResponses :
        LET w == wait_for_rate_limit_on(rate_limit_remaining, resp) IN
        /\ threads[t] = "submitted"
        /\ rate_limit_remaining' = w.remaining
        /\ threads' = [threads EXCEPT ![t] = IF w.go THEN "fetching"
                                            ELSE IF SavesBeforeStop(impl)
                                            THEN "save_current_data"
                                            ELSE "returned_none"]
    /\ UNCHANGED <<state_file, raw_file>>
    /\ UNCHANGED threadFrame

\* save_current_data in worker t, "with open(filename, 'w')": nothing is
\* written when all_repos is empty; the open truncates the file
worker_open_data ==
    /\ \E t \in 1..PoolThreads :
        /\ threads[t] = "save_current_data"
        /\ IF all_repos = NoRepos
           THEN /\ threads' = [threads EXCEPT ![t] = "save_state"]
                /\ UNCHANGED raw_file
           ELSE /\ threads' = [threads EXCEPT ![t] = "writing_data"]
                /\ raw_file' = TornRawFile
    /\ UNCHANGED <<rate_limit_remaining, state_file>>
    /\ UNCHANGED threadFrame

\* save_current_data in worker t, json.dump and the end of the with block:
\* while another thread holds the file open, the file may be left cut short
worker_close_data ==
    /\ \E t \in 1..PoolThreads :
        /\ threads[t] = "writing_data"
        /\ threads' = [threads EXCEPT ![t] = "save_state"]
        /\ raw_file' \in {RawContent(all_repos, progress_state)}
                         \cup IF OtherWriters(t, WritingData) = {} THEN {}
                              ELSE {TornRawFile}
    /\ UNCHANGED <<rate_limit_remaining, state_file>>
    /\ UNCHANGED threadFrame

\* save_state in worker t, "with open(self.state_file, 'w')"
worker_open_state ==
    /\ \E t \in 1..PoolThreads :
        /\ threads[t] = "save_state"
        /\ threads' = [threads EXCEPT ![t] = "writing_state"]
    /\ state_file' = TornStateFile
    /\ UNCHANGED <<rate_limit_remaining, raw_file>>
    /\ UNCHANGED threadFrame

\* save_state in worker t, json.dump and the end of the with block; then
\* check_rate_limit returns False and the worker returns None
worker_close_state ==
    /\ \E t \in 1..PoolThreads :
        /\ threads[t] = "writing_state"
        /\ threads' = [threads EXCEPT ![t] = "returned_none"]
        /\ state_file' \in {save_state(progress_state, state_file, TRUE)}
                           \cup IF OtherWriters(t, WritingState) = {} THEN {}
                                ELSE {TornStateFile}
    /\ UNCHANGED <<rate_limit_remaining, raw_file>>
    /\ UNCHANGED threadFrame

\* enrich_repo_data_single after the gate: the sub-requests of worker t are
\* answered, the last header count is cached, the worker returns enriched
worker_return ==
    /\ \E t \in 1..PoolThreads, count \in HeaderVals :
        /\ threads[t] = "fetching"
        /\ threads' = [threads EXCEPT ![t] = "returned"]
        /\ rate_limit_remaining' = count
    /\ UNCHANGED <<state_file, raw_file>>
    /\ UNCHANGED threadFrame

\* enrich_all_repos, body of "for future in as_completed(future_to_repo)":
\* on None the orchestrating thread opens the output file
\* (_save_enriched_data), any other result is recorded in memory
orchestrator_yield ==
    /\ threads[Orchestrator] = "as_completed"
    /\ \E t \in 1..PoolThreads :
        /\ threads[t] \in {"returned", "returned_none"}
        /\ threads' = [threads EXCEPT ![t] = "yielded",
                                      ![Orchestrator] =
                                          IF threads[t] = "returned_none"
                                          THEN "writing_output" ELSE "as_completed"]
    /\ UNCHANGED <<rate_limit_remaining, state_file, raw_file>>
    /\ UNCHANGED threadFrame

\* enrich_all_repos, "return" after the save on None: the output file is
\* closed (its records are followed in SpecEnrich)
orchestrator_return ==
    /\ threads[Orchestrator] = "writing_output"
    /\ threads' = [threads EXCEPT ![Orchestrator] = "shutdown"]
    /\ UNCHANGED <<rate_limit_remaining, state_file, raw_file>>
    /\ UNCHANGED threadFrame

\* the end of "with ThreadPoolExecutor" waits until every worker of the
\* batch has returned
orchestrator_shutdown ==
    /\ threads[Orchestrator] = "shutdown"
    /\ \A t \in 1..PoolThreads : threads[t] \in {"returned", "returned_none", "yielded"}
    /\ threads' = [threads EXCEPT ![Orchestrator] = "exited"]
    /\ UNCHANGED <<rate_limit_remaining, state_file, raw_file>>
    /\ UNCHANGED threadFrame

\* enrich_all_repos, "Save after each batch": every future was yielded, the
\* orchestrating thread opens the output file (_save_enriched_data)
orchestrator_save_batch ==
    /\ threads[Orchestrator] = "as_completed"
    /\ \A t \in 1..PoolThreads : threads[t] = "yielded"
    /\ threads' = [threads EXCEPT ![Orchestrator] = "writing_batch_output"]
    /\ UNCHANGED <<rate_limit_remaining, state_file, raw_file>>
    /\ UNCHANGED threadFrame

\* enrich_all_repos, self.save_state() after the save of a batch: the output
\* file is closed, the state file opened
orchestrator_open_state ==
    /\ threads[Orchestrator] = "writing_batch_output"
    /\ threads' = [threads EXCEPT ![Orchestrator] = "writing_batch_state"]
    /\ state_file' = TornStateFile
    /\ UNCHANGED <<rate_limit_remaining, raw_file>>
    /\ UNCHANGED threadFrame

\* save_state in the orchestrating thread, json.dump and the end of the with
\* block; the batch was the last one
orchestrator_close_state ==
    /\ threads[Orchestrator] = "writing_batch_state"
    /\ threads' = [threads EXCEPT ![Orchestrator] = "exited"]
    /\ state_file' = save_state(progress_state, state_file, TRUE)
    /\ UNCHANGED <<rate_limit_remaining, raw_file>>
    /\ UNCHANGED threadFrame

\* the threads of a batch, the workers first: every future is submitted and
\* the orchestrating thread waits in as_completed
SubmittedBatch ==
    [t \in 1..(PoolThreads + 1) |-> IF t <= PoolThreads THEN "submitted" ELSE "as_completed"]

\* self.all_repos after load_existing_repos in a run of phase 2
LoadedRepos == ingest_repo(NoRepos, Plan[1], Item1)

\* the registry and the data file are those phase 1 left, the cached count
\* is the one the last response before the batch left
InitThreads ==
    /\ impl \in {"test2", "test"}
    /\ first_match = 1
    /\ pc = "enrich"
    /\ task = 1
    /\ query = 1
    /\ progress_state = [DefaultState EXCEPT !.phase = "enrichment"]
    /\ all_repos = LoadedRepos
    /\ rate_limit_remaining \in HeaderVals
    /\ state_file = save_state(progress_state, NoStateFile, TRUE)
    /\ raw_file = RawContent(all_repos, progress_state)
    /\ exit_reason = "none"
    /\ quota_gone = FALSE
    /\ runs = 1
    /\ io_failures = 0
    /\ mark_returned = {}
    /\ searching = "none"
    /\ quota_stopped = FALSE
    /\ failed_write = FALSE
    /\ IdleSearch
    /\ unit = "none"
    /\ call = NoCall
    /\ ingested = <<>>
    /\ validated = <<>>
    /\ merged = NoMerge
    /\ writers = EmptyDict
    /\ threads = SubmittedBatch
    /\ IdleEnrich

NextThreads ==
    \/ worker_wait_for_rate_limit
    \/ worker_open_data
    \/ worker_close_data
    \/ worker_open_state
    \/ worker_close_state
    \/ worker_return
    \/ orchestrator_yield
    \/ orchestrator_return
    \/ orchestrator_shutdown
    \/ orchestrator_save_batch
    \/ orchestrator_open_state
    \/ orchestrator_close_state

SpecThreads == InitThreads /\ [][NextThreads]_vars

(***************************************************************************)
(* SpecEnrich: phase 2 of main(), run again and again.  The pool starts    *)
(* the workers of a batch in submission order.  A worker takes two steps:  *)
(* its gate, then its three sub-requests, answered in any order.  The      *)
(* orchestrating thread takes one step for every future that as_completed  *)
(* yields and one step at the end of a batch.  Dicts are functions; the    *)
(* order of the list 'repositories' of the output file is not modelled.    *)
(***************************************************************************)
enrich_batch_size == 10

Entities == 1..NumEntities

\* the full name under which the service knows a renamed entity
NewName(e) == 0 - e

\* endpoints.items()
Endpoints == <<"details", "languages", "readme">>

\* the orders in which the service can answer the three sub-requests
EndpointOrders ==
    {o \in [1..Len(Endpoints) -> Range(Endpoints)] : Range(o) = Range(Endpoints)}

\* the item of the search that the collection stored as 'raw_data'
RawData(e) ==
    [full_name |-> e, language |-> "Python", license |-> [name |-> "MIT"],
     topics |-> <<"cli">>]

\* data['repositories'] of github_repos_raw.json
RawRepos == [e \in Entities |-> [raw_data |-> RawData(e), source |-> <<"top_repos">>]]

\* response.json() of GET /repos/{full_name}; the request for a renamed
\* entity is redirected and answered under its new name
DetailsData(e) ==
    [full_name |-> IF e \in renamed THEN NewName(e) ELSE e, language |-> "Python",
     license |-> [name |-> "MIT"], topics |-> <<"cli">>]

\* response.json() of GET /repos/{full_name}/languages: language -> bytes
LanguagesData(e) == [Python |-> 1000]

\* response.json() of GET /repos/{full_name}/readme
ReadmeData(e) ==
    [download_url |-> "raw/README.md", name |-> "README.md", content |-> "dGV4dA==",
     encoding |-> "base64"]

\* base64.b64decode(content).decode('utf-8'); None when it raises
b64decode(content) == IF content = "dGV4dA==" THEN "text" ELSE None

\* {**d1, **d2}
Merge(d1, d2) ==
    [k \in (DOMAIN d1) \cup (DOMAIN d2) |-> IF k \in DOMAIN d2 THEN d2[k] ELSE d1[k]]

\* d.get(k, default)
Get(d, k, default) == IF k \in DOMAIN d THEN d[k] ELSE default

\* a or b, for strings
OrStr(a, b) == IF a \in {None, ""} THEN b ELSE a

\* a or b, for lists
OrList(a, b) == IF a = <<>> THEN b ELSE a

\* enrich_repo_data_single, the keys that the data of one endpoint fills in
EndpointFields(name, e) ==
    CASE name = "details" ->
            LET data == DetailsData(e) IN
            [detailed_info |-> data, primary_language |-> data.language,
             license |-> data.license.name, topics |-> data.topics]
      [] name = "languages" -> [languages_breakdown |-> LanguagesData(e)]
      [] name = "readme" ->
            LET data == ReadmeData(e)
                base == [readme_url |-> data.download_url, readme_name |-> data.name]
            IN  IF data.encoding = "base64" /\ b64decode(data.content) # None
                THEN Merge(base, [readme_content |-> b64decode(data.content)])
                ELSE base

\* how the service answers sub-request req when it still grants q requests
SubTransport(req, q) ==
    IF req \in env.pages THEN env.kind
    ELSE IF q > 0 THEN "ok" ELSE "rate_limit"

\* X-RateLimit-Remaining as fetch_endpoint leaves it in the cached count
SubHeader(kind, q, cached) ==
    CASE kind = "ok" -> q - 1
      [] kind = "rate_limit" -> 0
      [] kind = "HTTP 500" -> q
      [] kind = "exception" -> cached

\* sub-requests whose data is kept only when all three were answered with data
RECURSIVE SubFetches_all_or_nothing(_, _, _, _, _, _, _)
SubFetches_all_or_nothing(e, ord, i, q, cached, kinds, acc) ==
    IF i > Len(ord)
    THEN [quota |-> q, cached |-> cached, kinds |-> kinds,
          enriched |-> IF \A x \in DOMAIN kinds : kinds[x] = "ok" THEN acc ELSE EmptyDict]
    ELSE LET kind == SubTransport(<<e, ord[i]>>, q) IN
         SubFetches_all_or_nothing(
             e, ord, i + 1, IF kind = "ok" THEN q - 1 ELSE q, SubHeader(kind, q, cached),
             Merge(kinds, [x \in {ord[i]} |-> kind]),
             IF kind = "ok" THEN Merge(acc, EndpointFields(ord[i], e)) ELSE acc)

\* the three sub-requests of entity e answered in the order ord, from the
\* i-th on: the quota and the cached count they leave, how each request was
\* answered, and the dict enriched
RECURSIVE SubFetches(_, _, _, _, _, _, _)
SubFetches(e, ord, i, q, cached, kinds, acc) ==
    IF i > Len(ord)
    THEN [quota |-> q, cached |-> cached, kinds |-> kinds, enriched |-> acc]
    ELSE LET kind == SubTransport(<<e, ord[i]>>, q) IN
         SubFetches(e, ord, i + 1, IF kind = "ok" THEN q - 1 ELSE q,
                    SubHeader(kind, q, cached),
                    Merge(kinds, [x \in {ord[i]} |-> kind]),
                    IF kind = "ok" THEN Merge(acc, EndpointFields(ord[i], e)) ELSE acc)

\* format_repo_for_output
format_repo_for_output(repo_data, enriched_data) ==
    LET raw == repo_data.raw_data
        detailed == Get(enriched_data, "detailed_info", raw)
        breakdown == Get(enriched_data, "languages_breakdown", EmptyDict)
    IN  [full_name |-> detailed.full_name,
         language |-> OrStr(Get(enriched_data, "primary_language", None), detailed.language),
         topics |-> OrList(Get(enriched_data, "topics", <<>>), detailed.topics),
         license |-> OrStr(Get(enriched_data, "license", None), detailed.license.name),
         readme |-> Get(enriched_data, "readme_content", ""),
         languages |-> DOMAIN breakdown,
         sources |-> repo_data.source]

\* _save_enriched_data: the output file rewritten from the map
save_enriched_data(er) ==
    [exists |-> TRUE,
     repositories |-> {format_repo_for_output(er[k], er[k].enriched_data) : k \in DOMAIN er}]

\* the full names of the records of the output file
FileNames(f) == {r.full_name : r \in f.repositories}

\* enrich_all_repos, resume: the records of the output file whose full name
\* is a key of the raw data
Resumable(f) == {r \in f.repositories : r.full_name \in DOMAIN RawRepos}

\* a resume that skips nothing
already_enriched_none(f) == {}

\* enrich_all_repos, resume: the set already_enriched
already_enriched(f) == {r.full_name : r \in Resumable(f)}

\* enrich_all_repos, resume: the entry rebuilt from record r of the output file
Rebuilt(r) ==
    Merge(RawRepos[r.full_name],
          [enriched_data |->
              [primary_language |-> r.language, license |-> r.license,
               topics |-> r.topics, readme_url |-> r.readme,
               languages_breakdown |-> [l \in r.languages |-> 0]]])

\* enrich_all_repos, resume: the map enriched_repos before the first batch
ResumedMap(f) ==
    [k \in already_enriched(f) |->
        Rebuilt(CHOOSE r \in Resumable(f) : r.full_name = k)]

\* the sequence of the elements of a set of numbers, ascending
RECURSIVE Ascending(_)
Ascending(S) ==
    IF S = {} THEN <<>>
    ELSE LET m == CHOOSE x \in S : \A y \in S : x <= y
         IN  <<m>> \o Ascending(S \ {m})

\* list(repos_to_enrich.items()), in the order of the raw data
repos_to_enrich(f) == Ascending(DOMAIN RawRepos \ already_enriched(f))

\* repos_list[batch_start:batch_start + batch_size]
Batch(list, start) == SubSeq(list, start + 1, Min(start + enrich_batch_size, Len(list)))

\* the requests that the workers of a full batch send
BatchRequests == Len(Endpoints) * enrich_batch_size

\* the fault of every sub-request of entity e
AllOf(e) == {<<e, Endpoints[i]>> : i \in 1..Len(Endpoints)}

\* a behaviour of the service during phase 2: the requests it grants at the
\* start of the first, the second, ... run (the last count for every later
\* run), the sub-requests that fail and how, the answer of the quota
\* endpoint, and the entities renamed after the collection
Scenario(quotas, pages, kind, gate, names) ==
    [env |-> Env(InitialRemaining, quotas[1], pages, kind, gate), quotas |-> quotas,
     renamed |-> names]

EnrichScenarios ==
    {Scenario(<<InitialRemaining>>, {}, "HTTP 500", "ok", {}),
     Scenario(<<InitialRemaining>>, {}, "HTTP 500", "ok", {2}),
     Scenario(<<InitialRemaining>>, {<<1, "readme">>}, "HTTP 500", "ok", {}),
     Scenario(<<InitialRemaining>>, AllOf(1), "exception", "ok", {}),
     Scenario(<<20, InitialRemaining>>, {}, "HTTP 500", "ok", {}),
     Scenario(<<8, HardFloor, HardFloor - 1>>, {}, "HTTP 500", "ok", {2}),
     Scenario(<<HardFloor, HardFloor - 1>>, {}, "HTTP 500", "ok", {}),
     Scenario(<<HardFloor, HardFloor - 1>>, {}, "HTTP 500", "exception", {}),
     Scenario(<<HardFloor - 1, InitialRemaining>>, {}, "HTTP 500", "ok", {}),
     Scenario(<<BatchRequests + 2>>, {}, "HTTP 500", "ok", {}),
     Scenario(<<BatchRequests + 2>>, {}, "HTTP 500", "ok", 1..enrich_batch_size)}

\* variables that no step of phase 2 changes
enrichFrame == <<impl, mainVars, progress_state, raw_file, io_failures, failed_write,
                 max_results, remote, s_pc, batch_start, page, in_flight, batch_results,
                 repos, total_filtered_out, ret, requested, responses, env,
                 filtered_count, unit, call, ingested, validated, merged, renamed, run_quotas,
                 writers, threads>>

InitEnrich ==
    /\ impl = "test2"
    /\ first_match = 1
    /\ pc = "exited"
    /\ task = 1
    /\ query = 1
    /\ progress_state \in {DefaultState, [DefaultState EXCEPT !.phase = "enrichment"]}
    /\ all_repos = NoRepos
    /\ rate_limit_remaining = InitialRemaining
    /\ state_file = save_state(progress_state, NoStateFile, TRUE)
    /\ raw_file = NoRawFile
    /\ exit_reason = "none"
    /\ quota_gone = FALSE
    /\ runs = 0
    /\ io_failures = 0
    /\ mark_returned = {}
    /\ searching = "none"
    /\ quota_stopped = FALSE
    /\ failed_write = FALSE
    /\ max_results = 100
    /\ remote = [total |-> 0, rejected |-> {}, empty |-> {}]
    /\ \E sc \in EnrichScenarios :
        /\ env = sc.env
        /\ renamed = sc.renamed
        /\ run_quotas = sc.quotas
    /\ remote_quota = env.quota
    /\ s_pc = "idle"
    /\ batch_start = 0
    /\ page = 1
    /\ in_flight = {}
    /\ batch_results = <<>>
    /\ repos = <<>>
    /\ total_filtered_out = 0
    /\ ret = Running
    /\ requested = <<>>
    /\ responses = NoResponses
    /\ filtered_count = 0
    /\ unit = "none"
    /\ call = NoCall
    /\ ingested = <<>>
    /\ validated = <<>>
    /\ merged = NoMerge
    /\ writers = EmptyDict
    /\ threads = NoThreads
    /\ e_pc = "exited"
    /\ e_runs = 0
    /\ enriched_repos = EmptyDict
    /\ enriched_file = NoEnrichedFile
    /\ enrich_progress = NoProgress
    /\ enrich_saved = NoProgress
    /\ e_batch_start = 0
    /\ started = 0
    /\ running = {}
    /\ completed = <<>>
    /\ yielded = {}
    /\ sub_requests = EmptyDict
    /\ prior_names = {}
    /\ repos_list = <<>>
    /\ actor = "none"

\* the orders in which the three sub-requests of a worker are answered now;
\* while the service grants all three, every order gives the same result
AnswerOrders == IF remote_quota >= Len(Endpoints) THEN {Endpoints} ELSE EndpointOrders

\* the batch that is in the pool
CurrentBatch == Batch(repos_list, e_batch_start)

\* the log of the sub-requests of the run, (entity, endpoint) -> the answers
\* to the requests sent for it, after the sub-requests of entity e
AddRequests(log, e, kinds) ==
    LET new == {<<e, ep>> : ep \in DOMAIN kinds} IN
    [p \in (DOMAIN log) \cup new |->
        (IF p \in DOMAIN log THEN log[p] ELSE <<>>)
        \o (IF p \in new THEN <<kinds[p[2]]>> ELSE <<>>)]

\* a gate that lets every phase through
EnrichmentPhase_any(ps) == TRUE

\* enrich_all_repos: if self.progress_state['phase'] != 'enrichment': return
EnrichmentPhase(ps) == ps.phase = "enrichment"

\* main(), phase 2: a fresh process checks the quota and calls
\* enrich_all_repos, which loads the raw data and the output file of the
\* earlier runs and submits the first batch; in phase 'raw_data' main() does
\* not get there, and a call of enrich_all_repos returns at once
enrich_start ==
    /\ e_pc = "exited"
    /\ e_runs < MaxEnrichRuns
    /\ e_runs' = e_runs + 1
    /\ actor' = "orchestrator"
    /\ LET q == run_quotas[Min(e_runs + 1, Len(run_quotas))]
           resp == IF env.gate = "ok" THEN [kind |-> "ok", remaining |-> q]
                    ELSE [kind |-> env.gate, remaining |-> 0]
           list == repos_to_enrich(enriched_file)
       IN  /\ remote_quota' = q
           /\ rate_limit_remaining' = IF EnrichmentPhase(load_state(state_file))
                                      THEN CheckRemaining(resp, InitialRemaining)
                                      ELSE InitialRemaining
           /\ enrich_progress' = enrich_saved
           /\ sub_requests' = EmptyDict
           /\ IF CheckStops(resp) \/ ~EnrichmentPhase(load_state(state_file))
              THEN /\ e_pc' = "exited"
                   /\ repos_list' = <<>>
                   /\ UNCHANGED <<enriched_repos, prior_names>>
              ELSE /\ enriched_repos' = ResumedMap(enriched_file)
                   /\ prior_names' = FileNames(enriched_file)
                   /\ repos_list' = list
                   /\ e_pc' = IF list = <<>> THEN "exited" ELSE "batch"
    /\ e_batch_start' = 0
    /\ started' = 0
    /\ running' = {}
    /\ completed' = <<>>
    /\ yielded' = {}
    /\ UNCHANGED <<enriched_file, enrich_saved, state_file>>
    /\ UNCHANGED enrichFrame

\* enrich_repo_data_single, "if not self.wait_for_rate_limit(): return None":
\* the next worker of the batch begins
worker_gate ==
    /\ e_pc \in {"batch", "drain"}
    /\ started < Len(CurrentBatch)
    /\ Cardinality(running) + Len(completed) < MaxOverlap
    /\ LET e == CurrentBatch[started + 1]
           w == wait_for_rate_limit(rate_limit_remaining)
       IN  /\ rate_limit_remaining' = w.remaining
           /\ started' = started + 1
           /\ IF w.go
              THEN /\ running' = running \cup {e}
                   /\ UNCHANGED completed
              ELSE /\ UNCHANGED running
                   /\ completed' = IF e_pc = "drain" THEN completed
                                   ELSE Append(completed, [entity |-> e, none |-> TRUE,
                                                           enriched |-> EmptyDict])
    /\ actor' = "worker"
    /\ UNCHANGED <<e_pc, e_runs, enriched_repos, enriched_file, enrich_progress,
                   enrich_saved, e_batch_start, yielded, sub_requests, prior_names,
                   repos_list, remote_quota, state_file>>
    /\ UNCHANGED enrichFrame

\* enrich_repo_data_single, the pool of three and the loop over its futures:
\* the worker of entity e sends its three sub-requests and returns enriched
worker_fetch ==
    /\ e_pc \in {"batch", "drain"}
    /\ \E e \in running, ord \in AnswerOrders :
        LET r == SubFetches(e, ord, 1, remote_quota, rate_limit_remaining, EmptyDict,
                            EmptyDict)
        IN
        /\ remote_quota' = r.quota
        /\ rate_limit_remaining' = r.cached
        /\ sub_requests' = AddRequests(sub_requests, e, r.kinds)
        /\ running' = running \ {e}
        /\ completed' = IF e_pc = "drain" THEN completed
                        ELSE Append(completed, [entity |-> e, none |-> FALSE,
                                                enriched |-> r.enriched])
    /\ actor' = "worker"
    /\ UNCHANGED <<e_pc, e_runs, enriched_repos, enriched_file, enrich_progress,
                   enrich_saved, e_batch_start, started, yielded, prior_names, repos_list,
                   state_file>>
    /\ UNCHANGED enrichFrame

\* enrich_all_repos, body of "for future in as_completed(future_to_repo)":
\* None ends the run after a save of the map; any other result is recorded
as_completed_yield ==
    /\ e_pc = "batch"
    /\ completed # <<>>
    /\ LET h == Head(completed) IN
       IF h.none
       THEN /\ enriched_file' = save_enriched_data(enriched_repos)
            /\ e_pc' = "drain"
            /\ UNCHANGED <<enriched_repos, enrich_progress, yielded>>
       ELSE /\ enriched_repos' =
                  Put(enriched_repos, h.entity,
                      Merge(RawRepos[h.entity], [enriched_data |-> h.enriched]))
            /\ enrich_progress' =
                  [enrichment_progress |-> Cardinality(DOMAIN enriched_repos'),
                   enriched_repos |-> enrich_progress.enriched_repos \cup {h.entity}]
            /\ yielded' = yielded \cup {h.entity}
            /\ UNCHANGED <<enriched_file, e_pc>>
    /\ completed' = Tail(completed)
    /\ actor' = "orchestrator"
    /\ UNCHANGED <<e_runs, enrich_saved, e_batch_start, started, running, sub_requests,
                   prior_names, repos_list, remote_quota, rate_limit_remaining,
                   state_file>>
    /\ UNCHANGED enrichFrame

\* enrich_all_repos, end of a batch: _save_enriched_data, save_state, then
\* the next batch is submitted or the function returns
save_batch ==
    /\ e_pc = "batch"
    /\ yielded = Range(CurrentBatch)
    /\ enriched_file' = save_enriched_data(enriched_repos)
    /\ enrich_saved' = enrich_progress
    /\ state_file' = save_state(progress_state, state_file, TRUE)
    /\ IF e_batch_start + enrich_batch_size < Len(repos_list)
       THEN /\ e_batch_start' = e_batch_start + enrich_batch_size
            /\ UNCHANGED e_pc
       ELSE /\ e_pc' = "exited"
            /\ UNCHANGED e_batch_start
    /\ started' = 0
    /\ yielded' = {}
    /\ actor' = "orchestrator"
    /\ UNCHANGED <<e_runs, enriched_repos, enrich_progress, running, completed,
                   sub_requests, prior_names, repos_list, remote_quota, rate_limit_remaining>>
    /\ UNCHANGED enrichFrame

\* enrich_all_repos, "return" inside "with ThreadPoolExecutor": the function
\* returns when every worker of the batch has returned
pool_shutdown ==
    /\ e_pc = "drain"
    /\ started = Len(CurrentBatch)
    /\ running = {}
    /\ e_pc' = "exited"
    /\ actor' = "orchestrator"
    /\ UNCHANGED <<e_runs, enriched_repos, enriched_file, enrich_progress, enrich_saved,
                   e_batch_start, started, running, completed, yielded, sub_requests,
                   prior_names, repos_list, remote_quota, rate_limit_remaining,
                   state_file>>
    /\ UNCHANGED enrichFrame

NextEnrich ==
    \/ enrich_start
    \/ worker_gate
    \/ worker_fetch
    \/ as_completed_yield
    \/ save_batch
    \/ pool_shutdown

SpecEnrich == InitEnrich /\ [][NextEnrich]_vars

\* the threads of a run keep running: every request has a timeout, and the
\* pool runs every future it was given; nothing makes the user start a run
FairSpecEnrich ==
    SpecEnrich
    /\ WF_vars(worker_gate \/ worker_fetch \/ as_completed_yield \/ save_batch
               \/ pool_shutdown)

(***************************************************************************)
(* SpecFetch: the two places where the fetcher uses thread pools, a call   *)
(* of search_repos or the runs of phase 2.                                 *)
(***************************************************************************)
InitFetch == InitSearch \/ InitEnrich

NextFetch == NextSearch \/ NextEnrich

SpecFetch == InitFetch /\ [][NextFetch]_vars

(***************************************************************************)
(* Properties of main() and the collection tasks (Spec)                    *)
(***************************************************************************)
PersistedState == load_state(state_file)

PersistedTasks == Range(PersistedState.completed_tasks)

PersistedKeys ==
    IF raw_file.exists /\ raw_file.intact THEN DOMAIN raw_file.repositories ELSE {}

NoDuplicates(seq) == \A i, j \in 1..Len(seq) : seq[i] = seq[j] => i = j

\* C1: whenever no process of test2.py runs (it returned or was killed at any
\* point), every task recorded as completed in the state file has every
\* entity it ingested (the repositories its queries return) in the data file,
\* so the next process that loads both files finds them.
C1_CheckpointAtomicity ==
    (impl = "test2" /\ pc = "exited") =>
        \A i \in 1..Len(Plan) :
            Plan[i].name \in PersistedTasks => Keys(SearchList(i)) \subseteq PersistedKeys

\* C2: completed_tasks never holds a name twice, and no search request is
\* issued for a task whose mark_task_complete call has returned, in this or
\* any earlier invocation.
C2_CompletedTaskNeverRerun ==
    /\ NoDuplicates(progress_state.completed_tasks)
    /\ searching \notin mark_returned

\* C3: a step that changes the phase from raw_data to enrichment, in memory
\* or in the state file, ends in a state where every planned task name is in
\* completed_tasks there.
C3_PhaseAdvanceNeedsAllTasks ==
    [][/\ (progress_state.phase = "raw_data" /\ progress_state'.phase = "enrichment")
            => TaskNames \subseteq Range(progress_state'.completed_tasks)
       /\ (PersistedState.phase = "raw_data" /\ PersistedState'.phase = "enrichment")
            => TaskNames \subseteq PersistedTasks']_vars

\* C3 witness: main() has flipped the phase in its first invocation, after
\* the whole plan was completed.
C3_Witness ==
    /\ runs = 1
    /\ pc = "enrich_check"
    /\ progress_state.phase = "enrichment"
    /\ TaskNames \subseteq Range(progress_state.completed_tasks)

\* C4: once the state file holds phase enrichment it holds it after every
\* step, and every running process (this one or a later invocation that
\* loaded the file) has phase enrichment in memory.
C4_PhaseOneWay ==
    [][PersistedState.phase = "enrichment"
         => /\ PersistedState'.phase = "enrichment"
            /\ (pc' # "exited" => progress_state'.phase = "enrichment")]_vars

\* C5: when main() has returned because of quota exhaustion and no file write
\* has ever failed, the state file holds the in-memory registry and the data
\* file holds the in-memory entity map.
C5_QuotaStopLeavesFreshCheckpoint ==
    (pc = "exited" /\ exit_reason = "quota" /\ io_failures = 0)
        => /\ PersistedState = progress_state
           /\ (all_repos # NoRepos =>
                 raw_file.exists /\ raw_file.intact
                 /\ raw_file.repositories = all_repos)

\* C6: after a file write has failed in the running process, the process
\* issues no search request, adds no task to completed_tasks and does not
\* change the phase.
C6_FailedWriteIsFatal ==
    [][(failed_write /\ pc # "exited" /\ pc' # "exited")
         => /\ progress_state' = progress_state
            /\ ~(pc = "task" /\ searching' # "none")]_vars

\* C8: a task is marked complete only if none of its queries was stopped by
\* the quota gate or a rate-limit response.
C8_StoppedTaskStaysIncomplete ==
    pc = "save_data" => ~quota_stopped

(***************************************************************************)
(* Properties of search_repos (SpecSearch)                                 *)
(***************************************************************************)
IsPrefix(s, t) == Len(s) <= Len(t) /\ SubSeq(t, 1, Len(s)) = s

Returned == s_pc = "returned"

\* C7: in test2.py, when a page of the batch that was fetched last reported
\* rate limit, search_repos has returned None.
C7_RateLimitInBatchReturnsNone ==
    (impl = "test2" /\ Returned
       /\ \E i \in 1..Len(batch_results) : batch_results[i].error = "rate_limit")
        => ret = ReturnNone

\* every requested page number is in 1..10 and at most ceil(target / 100)
\* pages were requested
PagesBounded ==
    /\ \A i \in 1..Len(requested) : requested[i] \in 1..10
    /\ Len(requested) <= (max_results + 99) \div 100

Rank ==
    CASE s_pc = "returned" -> 0
      [] s_pc = "finish" -> 1
      [] s_pc = "request" -> 2
      [] s_pc = "gate" -> 3
      [] s_pc = "fetching" -> 4

\* a natural number that every step of search_repos decreases
Measure == 3 * (10 - Len(requested)) + Cardinality(in_flight) + Rank

\* C9: search_repos requests only pages in 1..10, at most ceil(target / 100)
\* of them, and terminates: until the call has returned a step of it is
\* possible, and every step decreases a measure that stays a natural number.
C9_PagesBoundedAndTerminates ==
    /\ [](PagesBounded /\ Measure >= 0 /\ (Returned \/ ENABLED NextSearch))
    /\ [][Measure' < Measure]_vars

\* C9 witness: a call with target 50000 has returned after requesting the
\* pages 1..10.
C9_Witness ==
    /\ Returned
    /\ max_results = 50000
    /\ Len(requested) = 10

\* the items of page p that search_repos keeps
AcceptedItems(p) ==
    IF impl = "test2" THEN SelectSeq(PageItems(p), Tier2Accepts) ELSE PageItems(p)

\* the accepted items of the pages 1..p that were answered with 200, in page order
RECURSIVE AcceptedUpTo(_)
AcceptedUpTo(p) ==
    IF p = 0 THEN <<>>
    ELSE AcceptedUpTo(p - 1)
         \o (IF p \in DOMAIN responses /\ responses[p] = "ok"
             THEN AcceptedItems(p) ELSE <<>>)

\* C10: a list returned by search_repos has at most max_results items and is
\* a prefix of the page-ordered concatenation of the accepted items.
C10_ListTruncatedAndOrdered ==
    (Returned /\ ret.kind = "list")
        => /\ Len(ret.repos) <= max_results
           /\ IsPrefix(ret.repos, AcceptedUpTo(10))

\* C10 witness: more items than the target were collected from several
\* pages and the returned list was cut to the target.
C10_Witness ==
    /\ Returned
    /\ ret.kind = "list"
    /\ Len(repos) > max_results
    /\ Len(ret.repos) = max_results
    /\ Len(requested) >= 2

\* what the worker returns for page p when the service grants the request:
\* the fault of the page if it has one, else the 200 answer
GrantedResult(p) ==
    IF p \in env.pages THEN PageFailure(p, env.kind) ELSE PageSuccess(p)

\* the pages 1, 2, ... of the call fetched one after another and handed to
\* the result loop in that order
SequentialFetch ==
    ProcessResults([p \in 1..max_pages(max_results) |-> GrantedResult(p)], 1,
                   [repos |-> <<>>, filtered |-> 0, out |-> "go"])

\* C11: a list returned by search_repos of test2.py is the list that fetching
\* the pages one after another in ascending page number returns, whatever
\* the order in which the page fetches of a batch completed.
C11_InterleavingIndependent ==
    (impl = "test2" /\ Returned /\ ret.kind = "list")
        => ret.repos = Truncate(SequentialFetch.repos, max_results)

\* C11 witness: a list with items of two pages was returned although the
\* page fetches of the last batch completed out of page order.
C11_Witness ==
    /\ impl = "test2"
    /\ Returned
    /\ ret.kind = "list"
    /\ Len(ret.repos) > per_page
    /\ \E i, j \in 1..Len(batch_results) :
          i < j /\ batch_results[i].page > batch_results[j].page

\* the page that holds item n of the remote
PageOf(n) == (n - 1) \div per_page + 1

\* the last page of the batch of page p: test2.py submits batch_size pages
\* at once, test.py requests one page at a time
LastOfBatch(p) ==
    IF impl = "test2" THEN ((p - 1) \div batch_size) * batch_size + batch_size ELSE p

\* page p was answered with status 200 and zero items
EmptyAnswer(p) == p \in DOMAIN responses /\ responses[p] = "ok" /\ PageItems(p) = <<>>

\* C12: once a page was answered with zero items the call ends there: the
\* returned list holds no item of a higher page, and no page of a later
\* batch (test.py: no later page) was requested.
C12_EmptyPageEndsQuery ==
    Returned =>
        \A p \in 1..PageCap :
            EmptyAnswer(p) =>
                /\ \A i \in 1..Len(ret.repos) : PageOf(ret.repos[i]) < p
                /\ \A i \in 1..Len(requested) : requested[i] <= LastOfBatch(p)

\* C12 witness: page 2 was answered empty while a higher page of the batch
\* was answered with items and a further batch was still due; the call
\* returned the items of page 1.
C12_Witness ==
    /\ Returned
    /\ ret.kind = "list"
    /\ ret.repos # <<>>
    /\ Len(requested) < max_pages(max_results)
    /\ \E p, q \in 1..PageCap :
          /\ EmptyAnswer(p)
          /\ q > p
          /\ q \in DOMAIN responses /\ responses[q] = "ok" /\ PageItems(q) # <<>>

(***************************************************************************)
(* Properties of the ingestion loops (SpecCalls)                           *)
(***************************************************************************)
IngestedKeys == {ingested[i].repo.full_name : i \in 1..Len(ingested)}

\* the payload of the first ingestion of key k
FirstPayload(k) ==
    LET first == CHOOSE i \in 1..Len(ingested) :
                     /\ ingested[i].repo.full_name = k
                     /\ \A j \in 1..(i - 1) : ingested[j].repo.full_name # k
    IN  ingested[first].repo

\* C13: the entity map holds one record for each ingested full_name and no
\* other, and the raw_data of a record is the payload of the first ingestion
\* of its key.
C13_OneRecordFirstPayload ==
    /\ DOMAIN all_repos = IngestedKeys
    /\ \A k \in DOMAIN all_repos : all_repos[k].raw_data = FirstPayload(k)

\* C13 witness: a key was ingested a second time, by another task and with
\* another payload.
C13_Witness ==
    \E i, j \in 1..Len(ingested) :
        /\ i < j
        /\ ingested[i].repo.full_name = ingested[j].repo.full_name
        /\ ingested[i].repo # ingested[j].repo
        /\ ingested[i].task # ingested[j].task

\* the tags of the tasks that ingested key k
ProducerTags(k) ==
    {Plan[ingested[i].task].tag :
        i \in {j \in 1..Len(ingested) : ingested[j].repo.full_name = k}}

\* number of occurrences of e in the list s
Count(s, e) == Cardinality({i \in 1..Len(s) : s[i] = e})

\* C14: the source list of every entity holds the tag of each task that
\* ingested the entity exactly once, and no other tag.
C14_TagsAreSetUnion ==
    \A k \in DOMAIN all_repos :
        /\ Range(all_repos[k].source) = ProducerTags(k)
        /\ \A tag \in ProducerTags(k) : Count(all_repos[k].source, tag) = 1

\* C15: an ingestion never turns a boolean facet of an entity from true to
\* false: is_gsoc, is_hacktoberfest, has_good_first_issues and
\* is_underrated stay true once they are true.
C15_FacetsMonotone ==
    [][\A k \in (DOMAIN all_repos) \cap (DOMAIN all_repos') :
          /\ all_repos[k].is_gsoc => all_repos'[k].is_gsoc
          /\ all_repos[k].is_hacktoberfest => all_repos'[k].is_hacktoberfest
          /\ all_repos[k].has_good_first_issues => all_repos'[k].has_good_first_issues
          /\ all_repos[k].is_underrated => all_repos'[k].is_underrated]_vars

\* the (task, repo) pairs of the list ingested front to back
RECURSIVE IngestPairs(_, _)
IngestPairs(all, pairs) ==
    IF pairs = <<>> THEN all
    ELSE IngestPairs(ingest_repo(all, Plan[Head(pairs).task], Head(pairs).repo),
                     Tail(pairs))

\* the orders in which n ingestions can happen
Orders(n) == {f \in [1..n -> 1..n] : \A i, j \in 1..n : f[i] = f[j] => i = j}

\* the same keys, payloads, tag sets, facet flags, topic and language sets
SameEntities(a, b) ==
    /\ DOMAIN a = DOMAIN b
    /\ \A k \in DOMAIN a :
          /\ a[k].raw_data = b[k].raw_data
          /\ Range(a[k].source) = Range(b[k].source)
          /\ a[k].is_gsoc = b[k].is_gsoc
          /\ a[k].is_hacktoberfest = b[k].is_hacktoberfest
          /\ a[k].has_good_first_issues = b[k].has_good_first_issues
          /\ a[k].is_underrated = b[k].is_underrated
          /\ Range(a[k].topics) = Range(b[k].topics)
          /\ Range(a[k].languages) = Range(b[k].languages)

\* C16: the entity map is the one that the same ingestions yield in every
\* other order.
C16_IngestionOrderIndependent ==
    \A f \in Orders(Len(ingested)) :
        SameEntities(IngestPairs(NoRepos, [i \in 1..Len(ingested) |-> ingested[f[i]]]),
                     all_repos)

(***************************************************************************)
(* Properties of the task registry (SpecCalls)                             *)
(***************************************************************************)
\* C17: a call of mark_task_complete leaves its name completed, and a call
\* with a name that is already completed changes neither the registry nor
\* the state file: two calls leave what one call leaves.
C17_MarkIdempotent ==
    [][call'.op = "mark_task_complete"
         => /\ is_task_complete(progress_state', call'.arg)
            /\ call'.pre => /\ progress_state' = progress_state
                            /\ state_file' = state_file]_vars

\* C17 witness: mark_task_complete was called with a name that an earlier
\* call had completed and persisted.
C17_Witness ==
    /\ call.op = "mark_task_complete"
    /\ call.pre
    /\ is_task_complete(PersistedState, call.arg)
    /\ Len(progress_state.completed_tasks) >= 2

C19_GateAsksOnlyBelowLowWater ==
    [][call'.op = "wait_for_rate_limit"
         => /\ call'.requests = 1 => rate_limit_remaining < 10
            /\ rate_limit_remaining >= 10
                 => /\ call'.requests = 0
                    /\ rate_limit_remaining' = rate_limit_remaining
                    /\ call'.ret]_vars

\* C19 witness: wait_for_rate_limit was called with a cached count of
\* exactly 10 and returned continue without a request.
C19_Witness ==
    /\ call.op = "wait_for_rate_limit"
    /\ ~call.pre
    /\ call.requests = 0
    /\ call.ret
    /\ rate_limit_remaining = 10

\* C20: when a call of wait_for_rate_limit leaves a remaining count below 5
\* it has returned stop.
C20_GateStopsBelowFloor ==
    (call.op = "wait_for_rate_limit" /\ rate_limit_remaining < 5) => ~call.ret

Answer(e, ep) ==
    IF <<e, ep>> \in DOMAIN sub_requests
    THEN sub_requests[<<e, ep>>][Len(sub_requests[<<e, ep>>])]
    ELSE "none"

\* the orchestrating thread takes the result of entity e from as_completed
Yields(e) ==
    /\ e_pc = "batch"
    /\ completed # <<>>
    /\ Head(completed).entity = e
    /\ ~Head(completed).none
    /\ completed' = Tail(completed)
    /\ actor' = "orchestrator"

\* C22: when the readme sub-request of an entity is answered 403 and its
\* details sub-request succeeds, the result of the entity carries the detail
\* fields (detailed_info, primary_language, license, topics) and no readme
\* content, the entity is recorded as enriched, and the run goes on
C22_PartialEnrichmentRecorded ==
    [][\A e \in Entities :
        (Yields(e) /\ Answer(e, "readme") = "rate_limit" /\ Answer(e, "details") = "ok")
        => /\ e \in DOMAIN enriched_repos'
           /\ LET d == enriched_repos'[e].enriched_data IN
              /\ {"detailed_info", "primary_language", "license", "topics"} \subseteq DOMAIN d
              /\ d.detailed_info = DetailsData(e)
              /\ d.primary_language = DetailsData(e).language
              /\ d.license = DetailsData(e).license.name
              /\ d.topics = DetailsData(e).topics
              /\ "readme_content" \notin DOMAIN d
           /\ e \in enrich_progress'.enriched_repos
           /\ e_pc' = "batch"]_vars

\* an entity recorded with its details and without readme, the readme
\* sub-request answered 403
C22_Witness ==
    \E e \in yielded :
        /\ e \in DOMAIN enriched_repos
        /\ Answer(e, "readme") = "rate_limit"
        /\ Answer(e, "details") = "ok"
        /\ "readme_content" \notin DOMAIN enriched_repos[e].enriched_data

\* the orchestrating thread takes the future of entity e from as_completed
Takes(e) ==
    /\ e_pc = "batch"
    /\ completed # <<>>
    /\ Head(completed).entity = e
    /\ completed' = Tail(completed)
    /\ actor' = "orchestrator"

\* the three sub-requests of entity e were all answered 403 in this run
AllRateLimited(e) ==
    \A i \in 1..Len(Endpoints) : Answer(e, Endpoints[i]) = "rate_limit"

\* C23: when the three sub-requests of an entity are all answered 403, the
\* run stops at the result of that entity: the map is saved, the function
\* returns, and the entity is not recorded as enriched
C23_AllRateLimitedStopsRun ==
    [][\A e \in Entities :
        (Takes(e) /\ AllRateLimited(e))
        => /\ e_pc' = "drain"
           /\ enriched_file' = save_enriched_data(enriched_repos)
           /\ e \notin DOMAIN enriched_repos'
           /\ e \notin enrich_progress'.enriched_repos]_vars

\* the three sub-requests of entity e were sent in this run and none of
\* them was answered with data
AllFailed(e) ==
    \A i \in 1..Len(Endpoints) : Answer(e, Endpoints[i]) \notin {"none", "ok"}

\* C24: an entity whose sub-requests all failed is not recorded as enriched:
\* it is neither in the map enriched_repos nor in the enriched output file
C24_RecordedOnlyWithData ==
    \A e \in Entities :
        AllFailed(e) => /\ e \notin DOMAIN enriched_repos
                        /\ e \notin FileNames(enriched_file)

\* the last future of the batch has been yielded and the orchestrating
\* thread saves: the batch is complete
BatchEnds ==
    /\ e_pc = "batch"
    /\ yielded = Range(CurrentBatch)
    /\ actor' = "orchestrator"
    /\ yielded' = {}

\* the full names under which the output file holds the entities of the map
NamesOf(er) == FileNames(save_enriched_data(er))

\* C25: a batch holds at most 10 entities; when a batch is complete, and
\* before the next one is submitted, the output file holds every entity
\* enriched so far, by the earlier runs and by this one, and the state file
\* holds the progress; the set of full names in the output file never
\* shrinks, from one batch to the next or from one run to the next
C25_CheckpointAfterEveryBatch ==
    [][/\ Len(CurrentBatch) <= enrich_batch_size
       /\ BatchEnds =>
            /\ prior_names \cup NamesOf(enriched_repos) \subseteq FileNames(enriched_file')
            /\ enrich_saved' = enrich_progress
            /\ load_state(state_file') = progress_state
       /\ FileNames(enriched_file) \subseteq FileNames(enriched_file')]_vars

(***************************************************************************)
(* Properties of the pool threads (SpecCalls)                              *)
(***************************************************************************)
\* C26: no field of the fetcher, the cached count rate_limit_remaining
\* included, is written by two pool threads without serialization: at most
\* one thread is at its store of the field at a time, and when the pool is
\* done the field holds the count of the last response of the service
C26_SharedWritesSerialized ==
    /\ Cardinality(DOMAIN writers) <= 1
    /\ (unit = "pool" /\ requested # <<>> /\ in_flight = {})
       => rate_limit_remaining = remote_quota

(***************************************************************************)
(* Properties of the thread pools (SpecFetch)                              *)
(***************************************************************************)
\* a step of a pool thread of test2.py: a page worker of search_repos returns
\* its result, or an entity worker of enrich_all_repos passes its gate or
\* returns
WorkerStep == (impl = "test2" /\ responses' # responses) \/ actor' = "worker"

\* the orchestrating thread applies the result at the head of completed
AppliesHead ==
    /\ completed # <<>>
    /\ ~Head(completed).none
    /\ completed' = Tail(completed)
    /\ DOMAIN enriched_repos' = DOMAIN enriched_repos \cup {Head(completed).entity}
    /\ enriched_repos'[Head(completed).entity].enriched_data = Head(completed).enriched
    /\ \A k \in DOMAIN enriched_repos \ {Head(completed).entity} :
          enriched_repos'[k] = enriched_repos[k]

\* C27: all_repos and the map enriched_repos are changed by the
\* orchestrating thread only; a result is applied after its worker has
\* returned it, one result at a step, and every entry applied before stays
C27_MapsChangedByOrchestratorOnly ==
    [][/\ WorkerStep => (UNCHANGED <<all_repos, enriched_repos, repos>>)
       /\ (e_pc = "batch" /\ enriched_repos' # enriched_repos) => AppliesHead]_vars

\* two results applied while another worker of the batch is running
C27_Witness ==
    /\ e_pc = "batch"
    /\ actor = "orchestrator"
    /\ running # {}
    /\ Cardinality(DOMAIN enriched_repos) >= 2

\* C28: nothing is retried: in one call of search_repos every page number is
\* requested at most once, and in one run of enrich_all_repos every
\* sub-endpoint of an entity is requested at most once, whatever the answers
C28_NoAutomaticRetry ==
    /\ NoDuplicates(requested)
    /\ \A p \in DOMAIN sub_requests : Len(sub_requests[p]) <= 1

\* a run of enrich_all_repos that ended after a sub-request failed and the
\* sub-requests of later entities were sent
C28_Witness ==
    /\ e_pc = "exited"
    /\ \E e \in Entities :
          /\ Answer(e, "readme") \notin {"ok", "none"}
          /\ \E p \in DOMAIN sub_requests : p[1] > e

(***************************************************************************)
(* Properties of the page results of search_repos (SpecSearch)             *)
(***************************************************************************)
\* the request for page p failed, and not for the quota
TransientFailure(p) ==
    p \in DOMAIN responses /\ responses[p] \notin {"ok", "rate_limit"}

\* the first page that was answered with zero items (PageCap + 1: no page)
EndOfResults ==
    IF \E p \in 1..PageCap : EmptyAnswer(p)
    THEN CHOOSE p \in 1..PageCap :
            EmptyAnswer(p) /\ \A q \in 1..(p - 1) : ~EmptyAnswer(q)
    ELSE PageCap + 1

\* the first page that was answered with no item that the validator accepts
FirstWithoutAccepted ==
    LET Bare(p) == p \in DOMAIN responses /\ responses[p] = "ok"
                   /\ AcceptedItems(p) = <<>>
    IN  IF \E p \in 1..PageCap : Bare(p)
        THEN CHOOSE p \in 1..PageCap : Bare(p) /\ \A q \in 1..(p - 1) : ~Bare(q)
        ELSE PageCap + 1

\* C29: a page of a call of search_repos of test2.py that fails for another
\* reason than the quota costs the call that page only: the call returns a
\* list or None, it goes on to the other pages and batches, and a returned
\* list holds, cut to max_results, the accepted items of every page that was
\* answered before the end of the results
C29_TransientFailureDropsOnePage ==
    (impl = "test2" /\ Returned /\ \E p \in 1..PageCap : TransientFailure(p))
        => /\ ret.kind \in {"list", "none"}
           /\ ret.kind = "list"
                => ret.repos = Truncate(AcceptedUpTo(EndOfResults - 1), max_results)

\* the same with the end that the result loop takes: the first page without
\* an accepted item
C29_UpToFirstPageWithoutAccepted ==
    (impl = "test2" /\ Returned /\ \E p \in 1..PageCap : TransientFailure(p))
        => /\ ret.kind \in {"list", "none"}
           /\ ret.kind = "list"
                => ret.repos = Truncate(AcceptedUpTo(FirstWithoutAccepted - 1), max_results)

\* a call that lost a page and returned the items of a later page
C29_PageLostOthersKept ==
    /\ impl = "test2"
    /\ Returned
    /\ ret.kind = "list"
    /\ \E p \in 1..PageCap :
          /\ TransientFailure(p)
          /\ \E i \in 1..Len(ret.repos) : PageOf(ret.repos[i]) > p

\* the items of the sequence, as a set
ItemsOf(list) == {list[i] : i \in 1..Len(list)}

\* C30: the result of fetch_page for a page answered 200 holds exactly the
\* items of the page that is_legitimate_project accepts, in the order of the
\* remote, and filtered_out + len(repos) = total_items; no rejected item is
\* in the list collected or returned by search_repos
C30_OnlyAcceptedItemsSurface ==
    impl = "test2"
        => /\ \A k \in 1..Len(batch_results) :
                LET r == batch_results[k] IN
                r.success
                    => /\ ItemsOf(r.repos) = ItemsOf(PageItems(r.page)) \ remote.rejected
                       /\ \A i \in 1..(Len(r.repos) - 1) : r.repos[i] < r.repos[i + 1]
                       /\ r.total_items = Len(PageItems(r.page))
                       /\ r.filtered_out + Len(r.repos) = r.total_items
           /\ \A i \in 1..Len(repos) : Tier2Accepts(repos[i])
           /\ \A i \in 1..Len(ret.repos) : Tier2Accepts(ret.repos[i])

\* a returned list of a page that had accepted and rejected items
C30_Witness ==
    /\ impl = "test2"
    /\ Returned
    /\ ret.kind = "list"
    /\ ret.repos # <<>>
    /\ \E k \in 1..Len(batch_results) :
          /\ batch_results[k].success
          /\ batch_results[k].filtered_out > 0
          /\ batch_results[k].repos # <<>>

Checks(repo) ==
    <<[fails |-> repo.license = None, reason |-> "No license"],
      [fails |-> len(strip(DescriptionOf(repo))) < min_description,
       reason |-> "No meaningful description"],
      [fails |-> matches_pattern(combined_text(repo), tutorial_patterns),
       reason |-> "Tutorial/demo/example project"],
      [fails |-> matches_pattern(combined_text(repo), portfolio_patterns),
       reason |-> "Portfolio/personal project"],
      [fails |-> matches_pattern(combined_text(repo), awesome_patterns),
       reason |-> "Curated list/awesome collection"],
      [fails |-> repo.stargazers_count > 0
                 /\ repo.forks_count > 2 * repo.stargazers_count,
       reason |-> "High fork/star ratio"],
      [fails |-> repo.stargazers_count > 50 /\ repo.watchers_count < 2,
       reason |-> "Low engagement (watchers)"],
      [fails |-> repo.stargazers_count > 100 /\ repo.open_issues_count = 0
                 /\ repo.forks_count < 5,
       reason |-> "Low engagement (no issues/forks)"]>>

\* the indices of the failing checks among checks
Failing(checks) == {k \in 1..Len(checks) : checks[k].fails}

\* C36: at every call, is_legitimate_project accepts an item exactly when it has a license,
\* its stripped description has 20 characters or more, name and description
\* match no pattern of the three lists, and none of the three engagement
\* rules applies; the reason of a rejection is that of the first failing
\* check, and an item without stars is never rejected for its fork ratio
C36_ValidatorVerdict ==
    validated # <<>> =>
        LET repo == validated[Len(validated)].item
            result == validated[Len(validated)].result
            checks == Checks(repo)
            failing == Failing(checks)
        IN  /\ result[1] <=> failing = {}
            /\ ~result[1]
                 => \E k \in failing :
                       /\ \A j \in failing : k <= j
                       /\ result[2] = checks[k].reason
            /\ repo.stargazers_count = 0 => result[2] # "High fork/star ratio"

\* an item that fails a pattern check and the fork ratio was rejected, and an
\* item without stars and with 300 forks was accepted
C36_Witness ==
    /\ \E i \in 1..Len(validated) :
          /\ Cardinality(Failing(Checks(validated[i].item))) >= 2
          /\ ~validated[i].result[1]
    /\ \E i \in 1..Len(validated) :
          /\ validated[i].item.stargazers_count = 0
          /\ validated[i].item.forks_count = 300
          /\ validated[i].result[1]

(***************************************************************************)
(* Properties of merge_repositories of test5.py (SpecPure)                 *)
(***************************************************************************)
\* the ids of the records of a dataset
IdsOf(file) == {file[i].id : i \in 1..Len(file)} \ {NoId}

\* the records of the dataset with this id
WithId(file, id) == {i \in 1..Len(file) : file[i].id = id}

\* the ids that both datasets hold, each in one record
InBoth(file1, file2) ==
    {id \in IdsOf(file1) \cap IdsOf(file2) :
        Cardinality(WithId(file1, id)) = 1 /\ Cardinality(WithId(file2, id)) = 1}

\* C32: merge_repositories returns one repository for every id of either
\* input and no other; for an id that both inputs hold, the merged sources
\* are the union of the sources of both, the merged readme is not empty
\* exactly when the stripped readme of one of them is not empty, and an
\* existing readme that is not empty is kept when the new one is empty
C32_MergeIsUnion ==
    merged.called =>
        LET out == merged.repositories IN
        /\ DOMAIN out = IdsOf(merged.file1) \cup IdsOf(merged.file2)
        /\ \A id \in DOMAIN out : out[id].id = id
        /\ \A id \in InBoth(merged.file1, merged.file2) :
              LET a == merged.file1[CHOOSE i \in WithId(merged.file1, id) : TRUE]
                  b == merged.file2[CHOOSE i \in WithId(merged.file2, id) : TRUE]
              IN  /\ out[id].sources = Range(a.sources) \cup Range(b.sources)
                  /\ out[id].readme # <<>>
                        <=> (strip(a.readme) # <<>> \/ strip(b.readme) # <<>>)
                  /\ (strip(a.readme) # <<>> /\ strip(b.readme) = <<>>)
                        => out[id].readme = a.readme

\* a merge of an id of both inputs with different sources, where the first
\* input has a readme and the second has a blank one, next to an id of one
\* input only and a record without id
C32_Witness ==
    /\ merged.called
    /\ \E id \in InBoth(merged.file1, merged.file2) :
          LET a == merged.file1[CHOOSE i \in WithId(merged.file1, id) : TRUE]
              b == merged.file2[CHOOSE i \in WithId(merged.file2, id) : TRUE]
          IN  /\ a.sources # b.sources
              /\ a.readme = <<"A">>
              /\ b.readme = <<" ">>
    /\ IdsOf(merged.file2) \ IdsOf(merged.file1) # {}
    /\ \E i \in 1..Len(merged.file1) : merged.file1[i].id = NoId

(***************************************************************************)
(* Properties of the resume of phase 2 (SpecEnrich)                        *)
(***************************************************************************)
\* the fields of a record of the output file that the enrichment fetched
Enrichment(r) ==
    [readme |-> r.readme, language |-> r.language, license |-> r.license,
     topics |-> r.topics, languages |-> r.languages]

\* the same without the readme
EnrichmentButReadme(r) ==
    [language |-> r.language, license |-> r.license, topics |-> r.topics,
     languages |-> r.languages]

\* C33: a write of the enriched output file leaves the readme, language,
\* license, topics and languages of every record that the file held before
\* under a name of the raw data as they were, in the run that enriched the
\* entity and in every later run that rebuilds the record from the file
C33_ResumePreservesEnrichment ==
    [][\A r \in Resumable(enriched_file), w \in enriched_file'.repositories :
          r.full_name = w.full_name => Enrichment(w) = Enrichment(r)]_vars

\* the fields other than the readme are kept
C33_ResumePreservesButReadme ==
    [][\A r \in Resumable(enriched_file), w \in enriched_file'.repositories :
          r.full_name = w.full_name => EnrichmentButReadme(w) = EnrichmentButReadme(r)]_vars

\* C34: while the phase is 'raw_data' a call of enrich_all_repos sends no
\* sub-request and writes no file; every sub-request of the enrichment is
\* sent while the phase is 'enrichment'
C34_EnrichmentGatedOnPhase ==
    [][/\ (sub_requests' # sub_requests /\ sub_requests' # EmptyDict)
            => progress_state.phase = "enrichment"
       /\ progress_state.phase = "raw_data"
            => /\ UNCHANGED <<enriched_file, state_file, raw_file, enriched_repos>>
               /\ sub_requests' = EmptyDict
               /\ e_pc' = "exited"]_vars

\* enrich_all_repos was called in phase 'raw_data' and has returned
C34_Witness ==
    /\ progress_state.phase = "raw_data"
    /\ e_runs >= 1
    /\ e_pc = "exited"
    /\ ~enriched_file.exists

(***************************************************************************)
(* Properties of the batches of search_repos (SpecSearch)                  *)
(***************************************************************************)
\* C35: in search_repos of test2.py at most 5 page requests are in flight, a
\* batch is submitted when every request of the batch before it has
\* completed, and only after the quota gate was consulted and said go: when
\* it says stop, no page is requested and the call returns None
C35_BoundedGatedBatches ==
    [][impl = "test2"
        => /\ Cardinality(in_flight') <= batch_size
           /\ Len(requested') > Len(requested)
                => /\ in_flight = {}
                   /\ s_pc = "gate"
                   /\ wait_for_rate_limit(rate_limit_remaining).go
                   /\ Len(requested') - Len(requested) <= batch_size
                   /\ in_flight' = Range(SubSeq(requested', Len(requested) + 1,
                                                Len(requested')))
           /\ (s_pc = "gate" /\ ~wait_for_rate_limit(rate_limit_remaining).go)
                => /\ requested' = requested
                   /\ in_flight' = {}
                   /\ ret'.kind = "none"]_vars

\* the second batch of five pages is in flight after the first has completed
C35_Witness ==
    /\ impl = "test2"
    /\ Len(requested) = 2 * batch_size
    /\ Cardinality(in_flight) = batch_size
    /\ \A p \in 1..batch_size : p \in DOMAIN responses

\* the sum of filtered_out over the pages 1..p that were answered with 200
RECURSIVE FilteredUpTo(_)
FilteredUpTo(p) ==
    IF p = 0 THEN 0
    ELSE FilteredUpTo(p - 1)
         + (IF p \in DOMAIN responses /\ responses[p] = "ok"
            THEN Len(SelectSeq(PageItems(p), Tier2Rejects)) ELSE 0)

\* page p was answered with items and the validator rejected every one
AllRejected(p) ==
    /\ p \in DOMAIN responses
    /\ responses[p] = "ok"
    /\ PageItems(p) # <<>>
    /\ AcceptedItems(p) = <<>>

\* C37: when search_repos of test2.py has returned a list, after the last
\* page, at the result cap or early on an empty page, filtered_count of the
\* registry has grown by the sum of filtered_out over the successful pages
\* of the call; when it has returned None, filtered_count is unchanged
\* (stated for the calls that met no page whose items were all rejected)
C37_FilteredCountAggregated ==
    (impl = "test2" /\ Returned /\ ~\E p \in 1..PageCap : AllRejected(p))
        => /\ ret.kind = "list" => filtered_count = FilteredUpTo(PageCap)
           /\ ret.kind = "none" => filtered_count = 0

\* the same for the calls that met no page without accepted items
C37_AggregatedAfterTheLoop ==
    (impl = "test2" /\ Returned /\ FirstWithoutAccepted = PageCap + 1)
        => /\ ret.kind = "list" => filtered_count = FilteredUpTo(PageCap)
           /\ ret.kind = "none" => filtered_count = 0

\* a call that returned after the loop and counted rejected items
C37_CountedAfterTheLoop ==
    /\ impl = "test2"
    /\ Returned
    /\ ret.kind = "list"
    /\ FirstWithoutAccepted = PageCap + 1
    /\ filtered_count > 0

\* C38: a page of search_repos of test2.py that was answered with items all
\* of which the validator rejected does not end the query: a list returned
\* after such a page still holds, cut to max_results, the accepted items of
\* the pages answered before the first page with zero items
C38_AllRejectedPageIsNotTheEnd ==
    (impl = "test2" /\ Returned /\ ret.kind = "list"
     /\ \E p \in 1..PageCap : AllRejected(p))
        => ret.repos = Truncate(AcceptedUpTo(EndOfResults - 1), max_results)

\* a call without such a page ends early on a page with zero items only
C38_EndsEarlyOnlyOnEmptyPage ==
    (impl = "test2" /\ Returned /\ ret.kind = "list"
     /\ ~\E p \in 1..PageCap : AllRejected(p))
        => ret.repos = Truncate(AcceptedUpTo(EndOfResults - 1), max_results)

\* a call that collected the items of the pages before an empty page
C38_CollectedUpToEmptyPage ==
    /\ impl = "test2"
    /\ Returned
    /\ ret.kind = "list"
    /\ EndOfResults <= PageCap
    /\ ret.repos # <<>>
    /\ remote.rejected # {}

(***************************************************************************)
(* Properties of the writers of the checkpoint files (SpecThreads)         *)
(***************************************************************************)
\* the threads that hold a file open for writing at one of the positions
WritersAt(positions) == {t \in DOMAIN threads : threads[t] \in positions}

\* only the orchestrating thread writes, and no file has two writers
SingleWriter ==
    /\ WritersAt(WritingData \cup WritingState \cup WritingOutput) \subseteq {Orchestrator}
    /\ Cardinality(WritersAt(WritingData)) <= 1
    /\ Cardinality(WritersAt(WritingState)) <= 1
    /\ Cardinality(WritersAt(WritingOutput)) <= 1

\* C39: in every interleaving of the workers of a batch of phase 2, the state
\* file and the data files are opened for writing by the orchestrating thread
\* only, and no file is held open for writing by two threads at once
C39_SingleWriter == threads # NoThreads => SingleWriter

\* in test2.py the orchestrating thread is the only writer
C39_SingleWriterTest2 == (threads # NoThreads /\ impl = "test2") => SingleWriter

\* in test.py no worker thread writes
C39_NoWorkerWritesTest ==
    (threads # NoThreads /\ impl = "test") => WritersAt(WritingData \cup WritingState) = {}

\* in test.py no file has two writers
C39_NeverTwoWritersTest ==
    (threads # NoThreads /\ impl = "test")
        => /\ Cardinality(WritersAt(WritingData)) <= 1
           /\ Cardinality(WritersAt(WritingState)) <= 1

\* the orchestrating thread of test2.py writes the output file while a worker
\* of the batch is still running
C39_OrchestratorWritesAmongWorkers ==
    /\ threads # NoThreads
    /\ impl = "test2"
    /\ threads[Orchestrator] = "writing_output"
    /\ \E t \in 1..PoolThreads : threads[t] = "fetching"

(***************************************************************************)
(* Properties of the progress across invocations (SpecEnrich)              *)
(***************************************************************************)
\* the entities of the raw data that have a record in the output file f or
\* among the full names, under the name of the collection or the new name
EntitiesAmong(names) ==
    {e \in Entities : e \in names \/ (e \in renamed /\ NewName(e) \in names)}

\* a run of phase 2 ends in this step after it has saved at least one batch
RunEndsAfterABatch ==
    /\ e_pc # "exited"
    /\ e_pc' = "exited"
    /\ (e_batch_start > 0 \/ e_pc = "batch")

\* C40: an invocation that was granted the quota for at least one batch of
\* phase 2 brings the enriched output closer to holding every collected
\* entity: when it ends, the output holds every entity of the raw data or an
\* entity that it did not hold when the invocation began, so that finitely
\* many such invocations put every entity into the output
C40_InvocationAdvancesOutput ==
    [][RunEndsAfterABatch
         => \/ EntitiesAmong(FileNames(enriched_file')) = Entities
            \/ EntitiesAmong(FileNames(enriched_file')) \ EntitiesAmong(prior_names) # {}]_vars

\* the same for the invocations in whose batches no entity was renamed
C40_AdvancesWithoutRenames ==
    [][(RunEndsAfterABatch /\ renamed = {})
         => \/ EntitiesAmong(FileNames(enriched_file')) = Entities
            \/ EntitiesAmong(FileNames(enriched_file')) \ EntitiesAmong(prior_names) # {}]_vars

\* phase 1: a task that an invocation finished, every write succeeding, is
\* in the registry on disk, so that a later invocation skips it
C40_FinishedTaskIsOnDisk ==
    [][(pc = "mark" /\ pc' = "save_data" /\ io_failures' = io_failures)
         => is_task_complete(load_state(state_file'), Plan[task].name)]_vars

\* every invocation of main() ends, whatever the quota
C40_InvocationTerminates == (pc # "exited") ~> (pc = "exited")

\* every run of phase 2 ends, whatever the quota: no thread waits for the
\* quota to reset
C40_EnrichmentRunTerminates == (e_pc # "exited") ~> (e_pc = "exited")

\* a run has saved a batch and ended on the quota, no entity was renamed,
\* and the output holds the entities of the batch and no other
C40_RunSavedABatch ==
    /\ e_pc = "exited"
    /\ e_batch_start > 0
    /\ renamed = {}
    /\ EntitiesAmong(FileNames(enriched_file)) \ EntitiesAmong(prior_names) # {}
    /\ EntitiesAmong(FileNames(enriched_file)) # Entities
====
